---------------------------- MODULE Spec2Model ----------------------------
(***************************************************************************)
(* The QuadraNet mesh engine (src/src/device.rs) with its pending-ack      *)
(* table (src/src/device/pending_ack.rs) and its routing table             *)
(* (src/src/route.rs, src/src/route/routing_table.rs).                     *)
(*                                                                         *)
(* One node is modelled.  Its main loop, run_quadranet, is a cycle of      *)
(* handlers; each handler is one action, computed by operators that take   *)
(* and return a device record d (the fields of LoraDevice plus the clock   *)
(* and the per-handler logs).  Time is in milliseconds and advances only   *)
(* where the code awaits a Timer or a radio receive timeout.               *)
(***************************************************************************)
EXTENDS Integers, Sequences, FiniteSets, TLC

VARIABLES
    pc,                 \* position of run_quadranet in its loop
    inqueue,            \* LoraDevice.inqueue
    outqueue,           \* LoraDevice.outqueue
    pending_acks,       \* LoraDevice.pending_acks, in insertion order
    routes,             \* RoutingTable.routes, in map order
    link_qualities,     \* RoutingTable.link_qualities
    state,              \* LoraDevice.state
    next_message_id,    \* the process-wide message-id counter
    now,                \* Instant::now(), in ms
    last_route_refresh, \* run_quadranet's last_route_refresh
    frames,             \* the frames the radio can deliver in this run
    horizon,            \* no receive starts after this instant (ms)
    rx_left,            \* frames the radio may still deliver
    err_left,           \* radio errors that may still happen
    rx_msg,             \* the frame decoded by the last receive step, or NoMsg
    txlog,              \* what the last handler handed to the radio
    failed_log,         \* nodes the last handler applied record_failed_delivery to
    before_retain,      \* the pending-ack table as the last retain() found it
    sent_count,         \* req_ack message (id, source, destination) -> times sent
    given_up,           \* message_ids whose pending ack ran out of attempts
    rt_log,             \* the last RoutingTable call: its arguments, the map before it, its result
    rt_left,            \* RoutingTable calls the table client may still make
    wire,               \* a message, its bytes on the radio, what the receiver decodes
    net                 \* a network of engines: each node's device, the frames in flight

vars == <<pc, inqueue, outqueue, pending_acks, routes, link_qualities, state,
          next_message_id, now, last_route_refresh, frames, horizon, rx_left, err_left,
          rx_msg, txlog, failed_log, before_retain, sent_count, given_up,
          rt_log, rt_left, wire, net>>

----------------------------------------------------------------------------
(* Program constants *)

INQUEUE_SIZE == 32
OUTQUEUE_SIZE == 32
MAX_INQUEUE_PROCESS == 5
MAX_OUTQUEUE_TRANSMIT == 5
INITIAL_BACKOFF_MS == 500
BACKOFF_FACTOR == 2
MAX_BACKOFF_MS == 10000
MAX_PENDING_ACKS == 8
MAX_ACK_ATTEMPTS == 3
MAX_ROUTES == 128
MAX_ROUTES_PER_DEST == 3
ROUTE_EXPIRY_SECONDS == 300
ROUTE_REFRESH_SECONDS == 180
MAX_TTL == 5
DISCOVERY_TTL == 3
RX_TIMEOUT_MS == 10000
RX_SETTLE_MS == 50
TX_SETTLE_MS == 100
REFRESH_SPACING_MS == 100
LOOP_DELAY_MS == 10
RETRY_LIST_SIZE == 16
REFRESH_LIST_SIZE == 16
REMOVAL_LIST_SIZE == 16

\* this node's uid, and the capabilities byte of its DeviceConfig
uid == 1
device_config == 0

(* Bounds of the model *)

MaxRxFrames == 2        \* frames the radio delivers in one run
MaxRadioErrors == 1     \* radio errors in one run of SpecRadio
MaxTime == 54000        \* no receive starts after this instant (ms)
PrefillOut == 8         \* req_ack messages the application queued before the run

----------------------------------------------------------------------------
(* Small helpers *)

Min(a, b) == IF a < b THEN a ELSE b
Max(a, b) == IF a > b THEN a ELSE b
Clamp(x, lo, hi) == Max(lo, Min(x, hi))
SatSub(a, b) == IF a > b THEN a - b ELSE 0
U8(x) == x % 256
\* integer division truncating toward zero (a float-to-integer cast)
TruncDiv(a, b) == IF a >= 0 THEN a \div b ELSE -((-a) \div b)

RECURSIVE Pow(_, _)
Pow(b, e) == IF e = 0 THEN 1 ELSE b * Pow(b, e - 1)

\* Option::None for a Uid (0 is "absent" on the wire too)
None == 0

----------------------------------------------------------------------------
(* Payload and Message *)

DataText(c) == [tag |-> "Data", kind |-> "Text", a |-> c, b |-> 0]
DataBinary(c) == [tag |-> "Data", kind |-> "Binary", a |-> c, b |-> 0]
Command == [tag |-> "Command", kind |-> "SetConfig", a |-> 0, b |-> 0]
AckSuccess(message_id) == [tag |-> "Ack", kind |-> "Success", a |-> message_id, b |-> 0]
AckFailure(message_id) == [tag |-> "Ack", kind |-> "Failure", a |-> message_id, b |-> 0]
AckDiscovered(hops, last_hop) == [tag |-> "Ack", kind |-> "AckDiscovered", a |-> hops, b |-> last_hop]
RoutePayload(kind) == [tag |-> "Route", kind |-> kind, a |-> 0, b |-> 0]
Discovery(original_ttl, caps) == [tag |-> "Discovery", kind |-> "Discovery", a |-> original_ttl, b |-> caps]

NoMsg == [message_id |-> -1, source_id |-> None, destination_id |-> None,
          payload |-> RoutePayload("none"), ttl |-> 0, req_ack |-> FALSE]

\* a message as it is on the wire or in a queue
Msg(id, src, dst, payload, ttl, req_ack) ==
    [message_id |-> id, source_id |-> src, destination_id |-> dst,
     payload |-> payload, ttl |-> ttl, req_ack |-> req_ack]

\* Message::new: a fresh message_id from the counter (passed in by the caller,
\* who advances the counter), ttl clamped to MAX_TTL
Message_new(id, src, dst, payload, ttl, req_ack) ==
    Msg(id, src, dst, payload, Min(ttl, MAX_TTL), req_ack)

decrement_ttl(m) == [m EXCEPT !.ttl = SatSub(@, 1)]
is_expired(m) == m.ttl = 0
set_message_id(m, id) == [m EXCEPT !.message_id = id]

----------------------------------------------------------------------------
(* Queues: heapless Vec<Message, N> behind the MessageQueue trait *)

enqueue(q, m, capacity) == IF Len(q) < capacity THEN Append(q, m) ELSE q

OutEnqueue(d, m) == [d EXCEPT !.outqueue = enqueue(@, m, OUTQUEUE_SIZE)]
InEnqueue(d, m) == [d EXCEPT !.inqueue = enqueue(@, m, INQUEUE_SIZE)]

\* a message built by Message::new and queued: consumes one id
next_id(d) == d.next_message_id
BumpId(d) == [d EXCEPT !.next_message_id = @ + 1]

----------------------------------------------------------------------------
(* Route and LinkQuality (src/src/route.rs) *)

NoRoute == [next_hop |-> None, hop_count |-> 0, quality |-> 0,
            last_updated |-> 0, is_active |-> FALSE]

Route_new(next_hop, hop_count, t) ==
    [next_hop |-> next_hop, hop_count |-> hop_count, quality |-> 0,
     last_updated |-> t, is_active |-> TRUE]

Route_with_quality(next_hop, hop_count, quality, t) ==
    [next_hop |-> next_hop, hop_count |-> hop_count, quality |-> quality,
     last_updated |-> t, is_active |-> TRUE]

touch(r, t) == [r EXCEPT !.last_updated = t]

\* Instant::now().duration_since(last_updated).as_secs() > ttl_seconds
Route_is_expired(r, ttl_seconds, t) == (t - r.last_updated) \div 1000 > ttl_seconds

LinkQuality_new(rssi, snr, t) ==
    [rssi |-> rssi, snr |-> snr, success_rate |-> 100, failure_rate |-> 0,
     last_used |-> t]

\* (f32::from(x + 120) / 90.0 * 100.0).clamp(0.0, 100.0) as u16
rssi_norm(rssi) == Clamp(TruncDiv((rssi + 120) * 100, 90), 0, 100)
snr_norm(snr) == Clamp(TruncDiv((snr + 20) * 100, 30), 0, 100)

LinkQuality_calculate_quality(l) ==
    LET quality == (l.success_rate * 4 + snr_norm(l.snr) * 3
                    + rssi_norm(l.rssi) * 2 + (100 - l.failure_rate)) \div 10
    IN  U8((quality * 255) \div 100)

record_success(l, t) ==
    [l EXCEPT !.success_rate = U8((l.success_rate * 9 + 100) \div 10),
              !.failure_rate = SatSub(l.failure_rate, 5),
              !.last_used = t]

record_failure(l, t) ==
    [l EXCEPT !.failure_rate = U8((l.failure_rate * 9 + 100) \div 10),
              !.success_rate = SatSub(l.success_rate, 10),
              !.last_used = t]

\* exponential smoothing, 70% old and 30% new, cast back to i16
update_signal_metrics(l, rssi, snr, t) ==
    [l EXCEPT !.rssi = TruncDiv(l.rssi * 7 + rssi * 3, 10),
              !.snr = TruncDiv(l.snr * 7 + snr * 3, 10),
              !.last_used = t]

----------------------------------------------------------------------------
(* RouteEntry (src/src/route/routing_table.rs).  An entry of the routes map *)
(* is [dest, routes, primary_idx, last_used]; indexes are 0-based as in the *)
(* code, and -1 stands for Option::None.                                    *)

RouteEntry_new(dest, route, t) ==
    [dest |-> dest, routes |-> <<route>>, primary_idx |-> 0, last_used |-> t]

get_route(entry, idx) ==
    IF idx >= 0 /\ idx < Len(entry.routes) THEN entry.routes[idx + 1] ELSE NoRoute

primary_route(entry) == get_route(entry, entry.primary_idx)

IsSome(route) == route.next_hop # None

\* a search that never finds the next hop
find_route_idx_by_next_hop_none(entry, next_hop) == -1

find_route_idx_by_next_hop(entry, next_hop) ==
    LET hits == {i \in 1..Len(entry.routes) : entry.routes[i].next_hop = next_hop}
    IN  IF hits = {} THEN -1
        ELSE (CHOOSE i \in hits : \A j \in hits : i <= j) - 1

find_worst_route_idx(entry) ==
    LET n == Len(entry.routes)
        worst == CHOOSE i \in 1..n :
                    /\ \A j \in 1..n : entry.routes[i].quality <= entry.routes[j].quality
                    /\ \A j \in 1..(i - 1) : entry.routes[j].quality > entry.routes[i].quality
    IN  IF n = 0 THEN -1 ELSE worst - 1

\* route1.quality > route2.quality + 20 and route1.hop_count + 1 < route2.hop_count
\* are u8 additions: they wrap in a release build
is_better_route(route1, route2) ==
    IF route1.is_active /\ ~route2.is_active THEN TRUE
    ELSE IF ~route1.is_active /\ route2.is_active THEN FALSE
    ELSE IF route1.quality > U8(route2.quality + 20) THEN TRUE
    ELSE IF route2.quality > U8(route1.quality + 20) THEN FALSE
    ELSE IF U8(route1.hop_count + 1) < route2.hop_count THEN TRUE
    ELSE IF U8(route2.hop_count + 1) < route1.hop_count THEN FALSE
    ELSE route1.last_updated > route2.last_updated

RECURSIVE BestFrom(_, _, _)
BestFrom(rs, i, best) ==
    IF i > Len(rs) THEN best
    ELSE IF is_better_route(rs[i], rs[best]) THEN BestFrom(rs, i + 1, i)
    ELSE BestFrom(rs, i + 1, best)

find_best_route_idx(entry) ==
    IF Len(entry.routes) = 0 THEN -1 ELSE BestFrom(entry.routes, 2, 1) - 1

update_primary_idx(entry) ==
    IF find_best_route_idx(entry) >= 0
    THEN [entry EXCEPT !.primary_idx = find_best_route_idx(entry)]
    ELSE entry

RouteValid(route, ttl, t) == route.is_active /\ ~Route_is_expired(route, ttl, t)

find_valid_route_idx(entry, ttl, t) ==
    LET hits == {i \in 1..Len(entry.routes) : RouteValid(entry.routes[i], ttl, t)}
    IN  IF hits = {} THEN -1
        ELSE (CHOOSE i \in hits : \A j \in hits : i <= j) - 1

----------------------------------------------------------------------------
(* RoutingTable (src/src/route/routing_table.rs), on the device record d:   *)
(* d.routes is the routes map as the sequence of its entries in map order,  *)
(* d.link_qualities the link-quality map as a function, d.now the clock.    *)

\* position of dest's entry in the map, 0 when it has none
EntryIdx(rs, dest) ==
    IF \E i \in 1..Len(rs) : rs[i].dest = dest
    THEN CHOOSE i \in 1..Len(rs) : rs[i].dest = dest
    ELSE 0

\* heapless IndexMap::remove is swap_remove: the last entry takes the place
SwapRemove(rs, i) ==
    IF i = Len(rs) THEN SubSeq(rs, 1, Len(rs) - 1)
    ELSE SubSeq([rs EXCEPT ![i] = rs[Len(rs)]], 1, Len(rs) - 1)

update_link_quality(d, node_id, rssi, snr) ==
    IF node_id \in DOMAIN d.link_qualities
    THEN [d EXCEPT !.link_qualities[node_id] = update_signal_metrics(@, rssi, snr, d.now)]
    ELSE IF Cardinality(DOMAIN d.link_qualities) < MAX_ROUTES
    THEN [d EXCEPT !.link_qualities =
            [n \in DOMAIN d.link_qualities \cup {node_id} |->
                IF n = node_id THEN LinkQuality_new(rssi, snr, d.now)
                ELSE d.link_qualities[n]]]
    ELSE d

\* the routes through node_id, re-scored from its link after a delivery outcome
RescoreRoutes(rs, node_id, link, t, deactivate) ==
    [i \in 1..Len(rs) |->
        [rs[i] EXCEPT !.routes =
            [k \in 1..Len(rs[i].routes) |->
                LET route == rs[i].routes[k]
                    new_quality == LinkQuality_calculate_quality(link)
                IN  IF route.next_hop = node_id
                    THEN [route EXCEPT !.quality = new_quality,
                                       !.last_updated = t,
                                       !.is_active = IF deactivate /\ new_quality < 50
                                                     THEN FALSE ELSE @]
                    ELSE route]]]

record_successful_delivery(d, node_id) ==
    IF node_id \in DOMAIN d.link_qualities
    THEN LET link == record_success(d.link_qualities[node_id], d.now)
         IN  [d EXCEPT !.link_qualities[node_id] = link,
                       !.routes = RescoreRoutes(@, node_id, link, d.now, FALSE)]
    ELSE d

record_failed_delivery(d, node_id) ==
    LET logged == [d EXCEPT !.failed_log = Append(@, node_id)]
    IN  IF node_id \in DOMAIN d.link_qualities
        THEN LET link == record_failure(d.link_qualities[node_id], d.now)
             IN  [logged EXCEPT !.link_qualities[node_id] = link,
                                !.routes = RescoreRoutes(@, node_id, link, d.now, TRUE)]
        ELSE logged

\* an eviction policy that takes the first entry in map order
find_first_inserted(rs) == IF Len(rs) = 0 THEN None ELSE rs[1].dest

find_least_recently_used(rs) ==
    IF Len(rs) = 0 THEN None
    ELSE rs[CHOOSE i \in 1..Len(rs) :
                /\ \A j \in 1..Len(rs) : rs[i].last_used <= rs[j].last_used
                /\ \A j \in 1..(i - 1) : rs[j].last_used > rs[i].last_used].dest

\* a same-hop update that leaves the primary index alone
UpdateSameHop_keep_primary(entry, existing_idx, route_to_add, t) ==
    [entry EXCEPT !.routes[existing_idx + 1] = route_to_add, !.last_used = t]

\* update(), the destination has an entry with a route through the same next hop
UpdateSameHop(entry, existing_idx, route_to_add, t) ==
    LET had_primary == IsSome(primary_route(entry))
        was_primary == existing_idx = entry.primary_idx
        primary == primary_route(entry)
        replaced == [entry EXCEPT !.routes[existing_idx + 1] = route_to_add]
    IN  [replaced EXCEPT
            !.primary_idx = IF ~was_primary /\ had_primary
                               /\ is_better_route(route_to_add, primary)
                            THEN existing_idx ELSE @,
            !.last_used = t]

\* update(), a new next hop and room among the alternates
UpdateAddRoute(entry, route_to_add, t) ==
    LET primary == primary_route(entry)
        idx == Len(entry.routes)
    IN  [entry EXCEPT
            !.routes = Append(@, route_to_add),
            !.primary_idx = IF IsSome(primary)
                            THEN IF is_better_route(route_to_add, primary) THEN idx ELSE @
                            ELSE idx,
            !.last_used = t]

\* update(), a new next hop and the alternates are full
UpdateReplaceWorst(entry, route_to_add, t) ==
    LET worst_idx == find_worst_route_idx(entry)
        worst_route == get_route(entry, worst_idx)
        was_primary == worst_idx = entry.primary_idx
        primary == primary_route(entry)
        replaced == [entry EXCEPT !.routes[worst_idx + 1] = route_to_add]
    IN  IF worst_idx >= 0 /\ route_to_add.quality > worst_route.quality
        THEN [(IF was_primary THEN update_primary_idx(replaced)
               ELSE IF IsSome(primary)
               THEN IF is_better_route(route_to_add, primary)
                    THEN [replaced EXCEPT !.primary_idx = worst_idx] ELSE replaced
               ELSE [replaced EXCEPT !.primary_idx = worst_idx])
              EXCEPT !.last_used = t]
        ELSE entry

\* update(), the destination has no entry: evict the least recently used entry
\* of a full map, then insert
UpdateNewEntry(rs, destination, route_to_add, t) ==
    LET evicted == IF Len(rs) >= MAX_ROUTES /\ find_least_recently_used(rs) # None
                   THEN SwapRemove(rs, EntryIdx(rs, find_least_recently_used(rs)))
                   ELSE rs
    IN  IF Len(evicted) < MAX_ROUTES
        THEN Append(evicted, RouteEntry_new(destination, route_to_add, t))
        ELSE evicted

update(d, destination, new_route) ==
    LET route_to_add ==
            IF new_route.next_hop \in DOMAIN d.link_qualities
            THEN [new_route EXCEPT !.quality =
                    LinkQuality_calculate_quality(d.link_qualities[new_route.next_hop])]
            ELSE new_route
        i == EntryIdx(d.routes, destination)
        entry == d.routes[i]
        existing_idx == find_route_idx_by_next_hop(entry, new_route.next_hop)
    IN  IF i # 0
        THEN [d EXCEPT !.routes[i] =
                IF existing_idx >= 0
                THEN UpdateSameHop(entry, existing_idx, route_to_add, d.now)
                ELSE IF Len(entry.routes) < MAX_ROUTES_PER_DEST
                THEN UpdateAddRoute(entry, route_to_add, d.now)
                ELSE UpdateReplaceWorst(entry, route_to_add, d.now)]
        ELSE [d EXCEPT !.routes = UpdateNewEntry(@, destination, route_to_add, d.now)]

\* a lookup that answers with the primary route whatever its condition
lookup_route_primary_only(d, destination) ==
    IF EntryIdx(d.routes, destination) = 0 THEN NoRoute
    ELSE primary_route(d.routes[EntryIdx(d.routes, destination)])

\* lookup_route(): the route it returns (NoRoute for Option::None) ...
lookup_route(d, destination) ==
    LET i == EntryIdx(d.routes, destination)
        entry == d.routes[i]
        primary == primary_route(entry)
        valid_idx == find_valid_route_idx(entry, ROUTE_EXPIRY_SECONDS, d.now)
    IN  IF i = 0 THEN NoRoute
        ELSE IF IsSome(primary) /\ RouteValid(primary, ROUTE_EXPIRY_SECONDS, d.now)
        THEN primary
        ELSE IF valid_idx >= 0 THEN get_route(entry, valid_idx)
        ELSE primary

\* ... and what it does to the table
lookup_route_touch(d, destination) ==
    LET i == EntryIdx(d.routes, destination)
        entry == d.routes[i]
        primary == primary_route(entry)
        valid_idx == find_valid_route_idx(entry, ROUTE_EXPIRY_SECONDS, d.now)
    IN  IF i = 0 THEN d
        ELSE IF IsSome(primary) /\ RouteValid(primary, ROUTE_EXPIRY_SECONDS, d.now)
        THEN [d EXCEPT !.routes[i].last_used = d.now]
        ELSE IF valid_idx >= 0
        THEN [d EXCEPT !.routes[i].primary_idx = valid_idx,
                       !.routes[i].last_used = d.now]
        ELSE IF IsSome(primary)
        THEN [d EXCEPT !.routes[i].last_used = d.now]
        ELSE d

\* a cleanup() pass that drops the expired routes only
CleanEntry_expired_only(entry, t) ==
    [entry EXCEPT !.routes =
        SelectSeq(@, LAMBDA r : ~Route_is_expired(r, ROUTE_EXPIRY_SECONDS, t))]

\* cleanup(), first pass: each entry keeps its valid routes and, if some remain,
\* a primary index inside them
CleanEntry(entry, t) ==
    LET kept == [entry EXCEPT !.routes =
                    SelectSeq(@, LAMBDA r : RouteValid(r, ROUTE_EXPIRY_SECONDS, t))]
    IN  IF Len(kept.routes) = 0 THEN kept
        ELSE IF kept.primary_idx >= Len(kept.routes) THEN update_primary_idx(kept)
        ELSE kept

\* the destinations cleanup() marks for removal: at most REMOVAL_LIST_SIZE
CleanupRemovals(rs) ==
    LET empty == SelectSeq(rs, LAMBDA e : Len(e.routes) = 0)
    IN  [k \in 1..Min(Len(empty), REMOVAL_LIST_SIZE) |-> empty[k].dest]

RECURSIVE RemoveAll(_, _)
RemoveAll(rs, dests) ==
    IF Len(dests) = 0 THEN rs
    ELSE RemoveAll(SwapRemove(rs, EntryIdx(rs, Head(dests))), Tail(dests))

cleanup(d) ==
    LET links == {n \in DOMAIN d.link_qualities :
                    d.now - d.link_qualities[n].last_used < ROUTE_EXPIRY_SECONDS * 3 * 1000}
        cleaned == [i \in 1..Len(d.routes) |-> CleanEntry(d.routes[i], d.now)]
    IN  [d EXCEPT !.link_qualities = [n \in links |-> d.link_qualities[n]],
                  !.routes = RemoveAll(cleaned, CleanupRemovals(cleaned))]

needs_refresh(d, destination) ==
    LET i == EntryIdx(d.routes, destination)
        primary == primary_route(d.routes[i])
    IN  IF i # 0 /\ IsSome(primary)
        THEN \/ Route_is_expired(primary, ROUTE_EXPIRY_SECONDS, d.now)
             \/ (~Route_is_expired(primary, ROUTE_REFRESH_SECONDS, d.now)
                 /\ primary.quality < 100)
        ELSE TRUE

----------------------------------------------------------------------------
(* PendingAck (src/src/device/pending_ack.rs) and the pending-ack table.    *)
(* The table is the sequence of its entries in insertion order; an entry    *)
(* carries its key as the field id.                                         *)

PendingAck_new(id, payload, destination_uid, ttl, t) ==
    [id |-> id, timestamp |-> t, attempts |-> 0, is_acknowledged |-> FALSE,
     payload |-> payload, destination_uid |-> destination_uid, ttl |-> ttl]

PendingIds(pa) == {pa[i].id : i \in 1..Len(pa)}
contains_key(pa, id) == id \in PendingIds(pa)
PendingIdx(pa, id) == CHOOSE i \in 1..Len(pa) : pa[i].id = id

\* get_mut(&id) followed by is_acknowledged = true, when the key is present
Acknowledge(pa, id) ==
    [i \in 1..Len(pa) |->
        IF pa[i].id = id THEN [pa[i] EXCEPT !.is_acknowledged = TRUE] ELSE pa[i]]

\* a retain that also drops the entries that have used all their attempts
retain_with_attempts_left(pa) ==
    SelectSeq(pa, LAMBDA e : ~e.is_acknowledged /\ e.attempts < MAX_ACK_ATTEMPTS)

\* pending_acks.retain(|_id, ack| !ack.is_acknowledged)
retain_unacknowledged(pa) == SelectSeq(pa, LAMBDA e : ~e.is_acknowledged)

\* an insert that replaces the entry of an id the map already holds
add_pending_ack_overwrite(d, message) ==
    LET fresh == PendingAck_new(message.message_id, message.payload,
                                message.destination_id, message.ttl, d.now)
    IN  IF contains_key(d.pending_acks, message.message_id)
        THEN [d EXCEPT !.pending_acks[PendingIdx(d.pending_acks, message.message_id)] = fresh]
        ELSE IF Len(d.pending_acks) < MAX_PENDING_ACKS
        THEN [d EXCEPT !.pending_acks = Append(@, fresh)]
        ELSE d

\* an insert that ignores the capacity of the map
add_pending_ack_unbounded(d, message) ==
    IF ~contains_key(d.pending_acks, message.message_id)
    THEN [d EXCEPT !.pending_acks =
            Append(@, PendingAck_new(message.message_id, message.payload,
                                     message.destination_id, message.ttl, d.now))]
    ELSE d

add_pending_ack(d, message) ==
    IF ~contains_key(d.pending_acks, message.message_id)
       /\ Len(d.pending_acks) < MAX_PENDING_ACKS
    THEN [d EXCEPT !.pending_acks =
            Append(@, PendingAck_new(message.message_id, message.payload,
                                     message.destination_id, message.ttl, d.now))]
    ELSE d

\* a backoff that doubles once and then stays
calculate_backoff_flat(attempt) ==
    IF attempt = 0 THEN INITIAL_BACKOFF_MS
    ELSE Min(INITIAL_BACKOFF_MS * BACKOFF_FACTOR, MAX_BACKOFF_MS)

calculate_backoff(attempt) ==
    IF attempt = 0 THEN INITIAL_BACKOFF_MS
    ELSE Min(INITIAL_BACKOFF_MS * Pow(BACKOFF_FACTOR, attempt), MAX_BACKOFF_MS)

\* calculate_quality of device.rs: the score of one reception
calculate_quality(rssi, snr) ==
    LET quality == (rssi_norm(rssi) * 4 + snr_norm(snr) * 6) \div 10
    IN  U8((quality * 255) \div 100)

----------------------------------------------------------------------------
(* LoraDevice (src/src/device.rs).  Besides the fields of the struct, d     *)
(* carries the radio's behaviour during the handler (the fail_at-th call of *)
(* tx_message fails, in prepare_for_tx or in tx) and the handler's logs.    *)

Message_new_ack(id, src, dst, ack, ttl, req_ack) ==
    Message_new(id, src, dst, ack, ttl, req_ack)

Message_new_discovery(id, src, dst, ttl, req_ack, config) ==
    Message_new(id, src, dst, Discovery(ttl, config), ttl, req_ack)

\* one entry of txlog: the message, and the pending-ack table as it was right
\* after the transmit
TxRecord(d, message) ==
    [msg |-> message,
     tracked |-> contains_key(d.pending_acks, message.message_id),
     table_full |-> Len(d.pending_acks) >= MAX_PENDING_ACKS]

\* the key of sent_count for a message
SentKey(message) ==
    [id |-> message.message_id, src |-> message.source_id, dst |-> message.destination_id]

CountSent(sc, message) ==
    IF ~message.req_ack THEN sc
    ELSE [k \in DOMAIN sc \cup {SentKey(message)} |->
            IF k = SentKey(message)
            THEN (IF k \in DOMAIN sc THEN sc[k] ELSE 0) + 1
            ELSE sc[k]]

tx_message(d, message) ==
    LET called == [d EXCEPT !.tx_calls = @ + 1]
        fails == called.tx_calls = d.fail_at
    IN  IF fails /\ d.fail_kind = "prepare"
        THEN [called EXCEPT !.tx_err = TRUE]
        ELSE IF fails
        THEN [called EXCEPT !.state = "Transmitting",
                            !.now = @ + TX_SETTLE_MS,
                            !.tx_err = TRUE]
        ELSE [called EXCEPT !.state = "Idle",
                            !.now = @ + TX_SETTLE_MS,
                            !.tx_err = FALSE,
                            !.txlog = Append(@, TxRecord(d, message)),
                            !.sent_count = CountSent(@, message)]

send_message(d, message) ==
    tx_message(IF message.req_ack THEN add_pending_ack(d, message) ELSE d, message)

RECURSIVE TransmitLoop(_, _)
TransmitLoop(d, n) ==
    IF n = 0 \/ Len(d.outqueue) = 0 THEN d
    ELSE LET sent == send_message([d EXCEPT !.outqueue = Tail(@)], Head(d.outqueue))
         IN  IF sent.tx_err THEN sent ELSE TransmitLoop(sent, n - 1)

process_outqueue(d) ==
    TransmitLoop(d, Min(Len(d.outqueue), MAX_OUTQUEUE_TRANSMIT))

\* an ack that itself asks for an acknowledgement
ack_success_req_ack(d, message) ==
    BumpId(OutEnqueue(d,
        Message_new_ack(next_id(d), uid, message.source_id,
                        AckSuccess(message.message_id), message.ttl, TRUE)))

ack_success(d, message) ==
    BumpId(OutEnqueue(d,
        Message_new_ack(next_id(d), uid, message.source_id,
                        AckSuccess(message.message_id), message.ttl, FALSE)))

\* any tracked Discovery counts, whatever its destination
is_route_discovery_in_progress_any(d, destination) ==
    \E i \in 1..Len(d.pending_acks) :
        d.pending_acks[i].payload.tag = "Discovery"

is_route_discovery_in_progress(d, destination) ==
    \E i \in 1..Len(d.pending_acks) :
        /\ d.pending_acks[i].payload.tag = "Discovery"
        /\ d.pending_acks[i].destination_uid # None
        /\ d.pending_acks[i].destination_uid = destination

initiate_route_discovery(d, destination) ==
    IF destination # 0
    THEN BumpId(OutEnqueue(d,
            Message_new_discovery(next_id(d), uid, destination, DISCOVERY_TTL, TRUE,
                                  device_config)))
    ELSE d

discover_nodes(d) ==
    BumpId(OutEnqueue(d,
        Message_new_discovery(next_id(d), uid, None, DISCOVERY_TTL, TRUE, device_config)))

\* Option<&RxInfo>
NoRxInfo == [some |-> FALSE, rssi |-> 0, snr |-> 0]
RxInfo(rssi, snr) == [some |-> TRUE, rssi |-> rssi, snr |-> snr]

HandleAckSuccess(d, message, message_id) ==
    IF contains_key(d.pending_acks, message_id)
    THEN record_successful_delivery(
            [d EXCEPT !.pending_acks = Acknowledge(@, message_id)], message.source_id)
    ELSE d

HandleAckDiscovered(d, message, hops, last_hop, rx_info) ==
    LET route == Route_new(last_hop, hops, d.now)
        enhanced_route == IF rx_info.some
                          THEN [route EXCEPT !.quality =
                                    calculate_quality(rx_info.rssi, rx_info.snr)]
                          ELSE route
        updated == update(d, message.source_id, enhanced_route)
    IN  IF message.destination_id = uid
        THEN [updated EXCEPT !.pending_acks = Acknowledge(@, message.message_id)]
        ELSE updated

HandleAckFailure(d, message_id) ==
    LET dest == d.pending_acks[PendingIdx(d.pending_acks, message_id)].destination_uid
        marked == [d EXCEPT !.pending_acks = Acknowledge(@, message_id)]
        route == lookup_route(marked, dest)
    IN  IF ~contains_key(d.pending_acks, message_id) THEN d
        ELSE IF dest = None THEN marked
        ELSE IF IsSome(route)
        THEN record_failed_delivery(lookup_route_touch(marked, dest), route.next_hop)
        ELSE lookup_route_touch(marked, dest)

handle_ack_message(d, message, ack, rx_info) ==
    IF ack.kind = "Success" THEN HandleAckSuccess(d, message, ack.a)
    ELSE IF ack.kind = "AckDiscovered"
    THEN HandleAckDiscovered(d, message, ack.a, ack.b, rx_info)
    ELSE HandleAckFailure(d, ack.a)

\* the Discovery arm of process_message_internal
HandleDiscovery(d, message, discovery, rx_info) ==
    LET hops == U8(discovery.a - message.ttl)
        routed == IF rx_info.some
                  THEN update(d, message.source_id,
                              Route_with_quality(message.source_id, 1,
                                  calculate_quality(rx_info.rssi, rx_info.snr), d.now))
                  ELSE d
    IN  BumpId(OutEnqueue(routed,
            Message_new_ack(next_id(routed), uid, message.source_id,
                            AckDiscovered(hops, uid), message.ttl, FALSE)))

process_message_internal(d, message, rx_info) ==
    IF message.payload.tag \in {"Data", "Command"}
    THEN IF message.req_ack THEN ack_success(d, message) ELSE d
    ELSE IF message.payload.tag = "Ack"
    THEN handle_ack_message(d, message, message.payload, rx_info)
    ELSE IF message.payload.tag = "Discovery"
    THEN HandleDiscovery(d, message, message.payload, rx_info)
    ELSE d


\* route_message, its first lines: an AckDiscovered in transit is rebuilt as a
\* new ack from this node to the last hop it names
RouteRewrite(d, message) ==
    IF message.payload.tag = "Ack" /\ message.payload.kind = "AckDiscovered"
    THEN Message_new_ack(next_id(d), uid, message.payload.b,
                         AckDiscovered(0, uid), message.ttl, message.req_ack)
    ELSE message

\* the message route_message hands to tx_message for a route it found
ForwardedMessage(d, message, route) ==
    decrement_ttl(Message_new(next_id(d), uid, route.next_hop, message.payload,
                              message.ttl, message.req_ack))

\* route_message, after the rewrite: link quality and direct route, then lookup
RouteForward(d, message, rx_info) ==
    LET source_id == message.source_id
        destination_id == message.destination_id
        heard == IF rx_info.some
                 THEN update(update_link_quality(d, source_id, rx_info.rssi, rx_info.snr),
                             source_id,
                             Route_with_quality(source_id, 1,
                                 calculate_quality(rx_info.rssi, rx_info.snr), d.now))
                 ELSE d
        route == lookup_route(heard, destination_id)
        looked == lookup_route_touch(heard, destination_id)
        sent == tx_message(BumpId(looked), ForwardedMessage(looked, message, route))
    IN  IF destination_id = None THEN d
        ELSE IF IsSome(route)
        THEN IF sent.tx_err THEN sent
             ELSE record_successful_delivery(sent, route.next_hop)
        ELSE IF ~is_route_discovery_in_progress(looked, destination_id)
        THEN initiate_route_discovery(looked, destination_id)
        ELSE looked

route_message(d, message, rx_info) ==
    IF message.payload.tag = "Ack" /\ message.payload.kind = "AckDiscovered"
    THEN RouteForward(BumpId(d), RouteRewrite(d, message), rx_info)
    ELSE RouteForward(d, message, rx_info)

enqueue_message_with_rx_info(d, message, rx_info) ==
    IF message.destination_id # None
    THEN IF message.destination_id = uid THEN InEnqueue(d, message)
         ELSE IF ~is_expired(message) THEN route_message(d, message, rx_info)
         ELSE d
    ELSE IF ~is_expired(message) THEN InEnqueue(OutEnqueue(d, message), message)
    ELSE d

process_message_with_rx_info(d, message, rx_info) ==
    enqueue_message_with_rx_info(
        process_message_internal(
            update_link_quality(d, message.source_id, rx_info.rssi, rx_info.snr),
            message, rx_info),
        message, rx_info)

RECURSIVE ProcessLoop(_, _)
ProcessLoop(d, n) ==
    IF n = 0 \/ Len(d.inqueue) = 0 THEN d
    ELSE ProcessLoop(
            process_message_internal([d EXCEPT !.inqueue = Tail(@)], Head(d.inqueue),
                                     NoRxInfo),
            n - 1)

process_inqueue(d) == ProcessLoop(d, Min(Len(d.inqueue), MAX_INQUEUE_PROCESS))

\* a rebuilt message that keeps the id Message::new gave it
RetryMessage_fresh_id(d, entry) ==
    Message_new(next_id(d), uid, entry.destination_uid, entry.payload, entry.ttl, TRUE)

\* retry_message: the message is rebuilt from the entry and keeps its id
RetryMessage(d, entry) ==
    set_message_id(
        Message_new(next_id(d), uid, entry.destination_uid, entry.payload, entry.ttl, TRUE),
        entry.id)

retry_message(d, message_id) ==
    IF contains_key(d.pending_acks, message_id)
    THEN BumpId(OutEnqueue(d,
            RetryMessage(d, d.pending_acks[PendingIdx(d.pending_acks, message_id)])))
    ELSE d

\* what the first pass of check_pending_acks_and_routes decides for an entry
RetryDue(ack, t) == t - ack.timestamp > calculate_backoff(ack.attempts)
\* a retry decision that never looks at the attempts
ShouldRetry_any_attempt(ack, t) == RetryDue(ack, t)
ShouldRetry(ack, t) == RetryDue(ack, t) /\ ack.attempts < MAX_ACK_ATTEMPTS
ShouldGiveUp(ack, t) == RetryDue(ack, t) /\ ~(ack.attempts < MAX_ACK_ATTEMPTS)

\* first pass: the entries are visited in map order; a retried entry gets a new
\* timestamp and one more attempt, an exhausted one records a failed delivery on
\* the next hop of the route to its destination
RECURSIVE ScanPending(_, _)
ScanPending(d, i) ==
    IF i > Len(d.pending_acks) THEN d
    ELSE LET ack == d.pending_acks[i]
             route == lookup_route(d, ack.destination_uid)
             looked == lookup_route_touch(d, ack.destination_uid)
         IN  IF ShouldRetry(ack, d.now)
             THEN ScanPending(
                    [d EXCEPT !.pending_acks[i].timestamp = d.now,
                              !.pending_acks[i].attempts = @ + 1,
                              !.to_retry = IF Len(@) < RETRY_LIST_SIZE
                                           THEN Append(@, ack.id) ELSE @],
                    i + 1)
             ELSE IF ShouldGiveUp(ack, d.now)
             THEN ScanPending(
                    [(IF ack.destination_uid = None THEN d
                      ELSE IF IsSome(route)
                      THEN record_failed_delivery(looked, route.next_hop)
                      ELSE looked)
                     EXCEPT !.to_acknowledge = IF Len(@) < RETRY_LIST_SIZE
                                               THEN Append(@, ack.id) ELSE @],
                    i + 1)
             ELSE ScanPending(d, i + 1)

RECURSIVE RetryAll(_, _)
RetryAll(d, ids) ==
    IF Len(ids) = 0 THEN d
    ELSE RetryAll(retry_message(d, Head(ids)), Tail(ids))

RECURSIVE AcknowledgeAll(_, _)
AcknowledgeAll(pa, ids) ==
    IF Len(ids) = 0 THEN pa
    ELSE AcknowledgeAll(Acknowledge(pa, Head(ids)), Tail(ids))

check_pending_acks_and_routes(d) ==
    LET scanned == ScanPending([d EXCEPT !.to_retry = <<>>, !.to_acknowledge = <<>>], 1)
        retried == RetryAll(scanned, scanned.to_retry)
        marked == [retried EXCEPT
                    !.pending_acks = AcknowledgeAll(@, scanned.to_acknowledge),
                    !.given_up = @ \cup {scanned.to_acknowledge[k] :
                                            k \in 1..Len(scanned.to_acknowledge)}]
    IN  cleanup([marked EXCEPT !.pending_acks = retain_unacknowledged(@),
                               !.before_retain = marked.pending_acks])

\* refresh_routes: the first REFRESH_LIST_SIZE destinations that need a refresh
RefreshList(d) ==
    LET all == SelectSeq([i \in 1..255 |-> i],
                         LAMBDA dest_id : dest_id # uid /\ needs_refresh(d, dest_id))
    IN  SubSeq(all, 1, Min(Len(all), REFRESH_LIST_SIZE))

RECURSIVE RefreshAll(_, _)
RefreshAll(d, dests) ==
    IF Len(dests) = 0 THEN d
    ELSE RefreshAll(
            [initiate_route_discovery(d, Head(dests)) EXCEPT !.now = @ + REFRESH_SPACING_MS],
            Tail(dests))

refresh_routes(d) == RefreshAll(d, RefreshList(d))

----------------------------------------------------------------------------
(* The environment: what the application queued before the run, and the     *)
(* frames the radio can deliver.                                            *)

\* a req_ack text message from the application to node 4, built by Message::new
AppMessage(i) == Message_new(i, uid, 4, DataText(i), 3, TRUE)
AppQueue(n) == [i \in 1..n |-> AppMessage(i - 1)]

\* an InQueue left with INQUEUE_SIZE - 1 undelivered messages
StaleInQueue == [i \in 1..(INQUEUE_SIZE - 1) |-> Msg(900, 9, uid, DataBinary(0), 1, FALSE)]

\* what the application left in InQueue and OutQueue before the run
InitQueues == {
    [inq |-> <<>>, outq |-> AppQueue(0)],
    [inq |-> <<>>, outq |-> AppQueue(1)],
    [inq |-> StaleInQueue, outq |-> AppQueue(1)],
    [inq |-> <<>>, outq |-> AppQueue(PrefillOut)],
    [inq |-> <<>>, outq |-> AppQueue(OUTQUEUE_SIZE)]
}

GoodSignal == RxInfo(-80, 5)

\* the frames the radio can deliver, each with the signal it is heard at
Frames == {
    \* data for this node, wanting an ack, fresh and expired
    [msg |-> Msg(42, 2, uid, DataText(1), 3, TRUE), rx |-> GoodSignal],
    [msg |-> Msg(43, 2, uid, DataText(1), 0, TRUE), rx |-> GoodSignal],
    \* a command for this node, wanting an ack
    [msg |-> Msg(44, 2, uid, Command, 2, TRUE), rx |-> GoodSignal],
    \* data for node 5, with hops to spare and on its last hop
    [msg |-> Msg(99, 3, 5, DataBinary(2), 3, FALSE), rx |-> GoodSignal],
    [msg |-> Msg(98, 3, 5, DataBinary(2), 1, TRUE), rx |-> GoodSignal],
    \* a text for node 5 that wants an ack
    [msg |-> Msg(97, 3, 5, DataText(2), 3, TRUE), rx |-> GoodSignal],
    \* node 5 answers a discovery of this node: it is reached through node 7
    [msg |-> Msg(77, 5, uid, AckDiscovered(1, 7), 3, FALSE), rx |-> GoodSignal],
    \* node 4 acknowledges, or refuses, the application's first message
    [msg |-> Msg(500, 4, uid, AckSuccess(0), 3, FALSE), rx |-> GoodSignal],
    [msg |-> Msg(501, 4, uid, AckFailure(0), 3, FALSE), rx |-> GoodSignal],
    \* node 4 broadcasts a discovery
    [msg |-> Msg(70, 4, None, Discovery(3, 0), 3, TRUE), rx |-> GoodSignal],
    \* node 4, a neighbour, broadcasts a discovery it originated with ttl 1
    [msg |-> Msg(71, 4, None, Discovery(1, 0), 1, TRUE), rx |-> GoodSignal],
    \* a broadcast text
    [msg |-> Msg(60, 2, None, DataText(3), 2, FALSE), rx |-> GoodSignal]
}

RadioFailKinds == {"prepare", "tx"}

----------------------------------------------------------------------------
(* The state machine: run_quadranet (src/src/device.rs)                     *)

NoLinks == [n \in {} |-> 0]

\* no RoutingTable call was made directly
\* no message is being encoded
NoWire == [message |-> <<>>, bytes |-> <<>>, decoded |-> <<>>]

\* no network is being run
NoNet == [dev |-> <<>>, air |-> <<>>, sent |-> <<>>]

NoRtLog == [op |-> "none", dest |-> None, route |-> NoRoute, before |-> <<>>]

\* the device record of the current state, for a handler during which the
\* fail_at-th call of tx_message fails (0: none does)
Dev(fail_at, fail_kind) ==
    [inqueue |-> inqueue, outqueue |-> outqueue, pending_acks |-> pending_acks,
     routes |-> routes, link_qualities |-> link_qualities, state |-> state,
     next_message_id |-> next_message_id, now |-> now,
     sent_count |-> sent_count, given_up |-> given_up,
     txlog |-> <<>>, failed_log |-> <<>>, before_retain |-> <<>>, to_retry |-> <<>>, to_acknowledge |-> <<>>,
     tx_calls |-> 0, tx_err |-> FALSE, fail_at |-> fail_at, fail_kind |-> fail_kind]

Commit(d) ==
    /\ inqueue' = d.inqueue
    /\ outqueue' = d.outqueue
    /\ pending_acks' = d.pending_acks
    /\ routes' = d.routes
    /\ link_qualities' = d.link_qualities
    /\ state' = d.state
    /\ next_message_id' = d.next_message_id
    /\ now' = d.now
    /\ sent_count' = d.sent_count
    /\ given_up' = d.given_up
    /\ txlog' = d.txlog
    /\ failed_log' = d.failed_log
    /\ before_retain' = d.before_retain
    /\ err_left' = err_left - (IF d.fail_at # 0 /\ d.tx_calls >= d.fail_at THEN 1 ELSE 0)
    /\ UNCHANGED <<rt_log, rt_left, wire, net>>

\* the state after LoraDevice::new, before run_quadranet
InitDevice ==
    /\ pc = "start"
    /\ pending_acks = <<>>
    /\ routes = <<>>
    /\ link_qualities = NoLinks
    /\ state = "Idle"
    /\ next_message_id = Len(outqueue)
    /\ now = 0
    /\ last_route_refresh = 0
    /\ rx_msg = NoMsg
    /\ txlog = <<>>
    /\ failed_log = <<>>
    /\ before_retain = <<>>
    /\ sent_count = NoLinks
    /\ given_up = {}
    /\ rt_log = NoRtLog
    /\ rt_left = 0
    /\ wire = NoWire
    /\ net = NoNet

Init ==
    /\ \E q \in InitQueues : inqueue = q.inq /\ outqueue = q.outq
    /\ frames = Frames
    /\ horizon = MaxTime
    /\ rx_left = MaxRxFrames
    /\ err_left = 0
    /\ InitDevice

\* run_quadranet before its loop: discover the network, start the refresh timer
Start ==
    /\ pc = "start"
    /\ Commit(discover_nodes(Dev(0, "tx")))
    /\ last_route_refresh' = now
    /\ pc' = "rx"
    /\ UNCHANGED <<frames, horizon, rx_left, rx_msg>>

\* a receive error that makes the engine drop what it had queued
RxNothing_flush ==
    /\ pc = "rx"
    /\ now < horizon
    /\ err_left > 0
    /\ err_left' = err_left - 1
    /\ now' = now + RX_SETTLE_MS
    /\ outqueue' = <<>>
    /\ state' = "Idle"
    /\ rx_msg' = NoMsg
    /\ txlog' = <<>>
    /\ failed_log' = <<>>
    /\ before_retain' = <<>>
    /\ pc' = "inqueue"
    /\ UNCHANGED <<inqueue, pending_acks, routes, link_qualities, rx_left,
                   next_message_id, last_route_refresh, sent_count, given_up, frames, horizon,
                   rt_log, rt_left, wire, net>>

\* try_wait_message when no frame is decoded: prepare_for_rx fails, the receive
\* times out, the receive fails, or the frame is malformed
RxNothing ==
    /\ pc = "rx"
    /\ now < horizon
    /\ \E outcome \in {"prepare_error", "timeout", "rx_error", "malformed"} :
        /\ outcome \in {"prepare_error", "rx_error"} => err_left > 0
        /\ outcome = "malformed" => rx_left > 0
        /\ err_left' = err_left
                - (IF outcome \in {"prepare_error", "rx_error"} THEN 1 ELSE 0)
        /\ rx_left' = rx_left - (IF outcome = "malformed" THEN 1 ELSE 0)
        /\ now' = now + (IF outcome = "prepare_error" THEN 0
                         ELSE IF outcome = "timeout" THEN RX_SETTLE_MS + RX_TIMEOUT_MS
                         ELSE RX_SETTLE_MS)
    /\ state' = "Idle"
    /\ rx_msg' = NoMsg
    /\ txlog' = <<>>
    /\ failed_log' = <<>>
    /\ before_retain' = <<>>
    /\ pc' = "inqueue"
    /\ UNCHANGED <<inqueue, outqueue, pending_acks, routes, link_qualities,
                   next_message_id, last_route_refresh, sent_count, given_up, frames, horizon,
                   rt_log, rt_left, wire, net>>

\* try_wait_message when a frame is decoded: process_message_with_rx_info
RxFrame ==
    /\ pc = "rx"
    /\ now < horizon
    /\ rx_left > 0
    /\ \E f \in frames, fail_at \in 0..1, fail_kind \in RadioFailKinds :
        /\ fail_at # 0 => err_left > 0
        /\ fail_at = 0 => fail_kind = "tx"
        /\ LET received == [Dev(fail_at, fail_kind) EXCEPT
                                !.state = "Receiving", !.now = @ + RX_SETTLE_MS]
               handled == process_message_with_rx_info(received, f.msg, f.rx)
           IN  /\ fail_at # 0 => handled.tx_calls >= fail_at
               /\ Commit([handled EXCEPT !.state = "Idle"])
        /\ rx_msg' = f.msg
    /\ rx_left' = rx_left - 1
    /\ pc' = "inqueue"
    /\ UNCHANGED <<last_route_refresh, frames, horizon>>

\* the loop processes InQueue when it is not full
ProcessInqueue ==
    /\ pc = "inqueue"
    /\ Commit(IF Len(inqueue) < INQUEUE_SIZE - 1
              THEN process_inqueue(Dev(0, "tx")) ELSE Dev(0, "tx"))
    /\ pc' = "outqueue"
    /\ UNCHANGED <<last_route_refresh, frames, horizon, rx_left, rx_msg>>

\* the loop processes OutQueue when it is not empty
ProcessOutqueue ==
    /\ pc = "outqueue"
    /\ \E fail_at \in 0..MAX_OUTQUEUE_TRANSMIT, fail_kind \in RadioFailKinds :
        /\ fail_at # 0 => err_left > 0 /\ fail_at <= Len(outqueue)
        /\ fail_at = 0 => fail_kind = "tx"
        /\ Commit(IF Len(outqueue) # 0
                  THEN process_outqueue(Dev(fail_at, fail_kind))
                  ELSE Dev(fail_at, fail_kind))
    /\ pc' = "check"
    /\ UNCHANGED <<last_route_refresh, frames, horizon, rx_left, rx_msg>>

CheckPendingAcksAndRoutes ==
    /\ pc = "check"
    /\ Commit(check_pending_acks_and_routes(Dev(0, "tx")))
    /\ pc' = "refresh"
    /\ UNCHANGED <<last_route_refresh, frames, horizon, rx_left, rx_msg>>

\* the end of an iteration: refresh the routes when the interval has passed,
\* then sleep
RefreshAndYield ==
    /\ pc = "refresh"
    /\ LET due == now - last_route_refresh > (ROUTE_EXPIRY_SECONDS \div 2) * 1000
           refreshed == IF due THEN refresh_routes(Dev(0, "tx")) ELSE Dev(0, "tx")
       IN  /\ Commit([refreshed EXCEPT !.now = @ + LOOP_DELAY_MS])
           /\ last_route_refresh' = IF due THEN refreshed.now ELSE last_route_refresh
    /\ pc' = "rx"
    /\ UNCHANGED <<frames, horizon, rx_left, rx_msg>>

Next ==
    \/ Start
    \/ RxNothing
    \/ RxFrame
    \/ ProcessInqueue
    \/ ProcessOutqueue
    \/ CheckPendingAcksAndRoutes
    \/ RefreshAndYield

Spec == Init /\ [][Next]_vars

\* one application message, one frame, and a radio that may fail
InitRadio ==
    /\ inqueue = <<>>
    /\ outqueue = AppQueue(1)
    /\ frames = Frames
    /\ horizon = MaxTime
    /\ rx_left = 1
    /\ err_left = MaxRadioErrors
    /\ InitDevice

SpecRadio == InitRadio /\ [][Next]_vars

\* a long quiet run: the loop mostly times out, so that the clock passes the
\* refresh interval and the refresh window of the routes learnt early on
MaxLongFrames == 2
LongTime == 200000

LongFrames == {
    \* node 2, a neighbour, answers the discovery broadcast of this node: the
    \* broadcast reached it with its ttl untouched
    [msg |-> Msg(78, 2, uid, AckDiscovered(0, 2), 3, FALSE), rx |-> GoodSignal],
    \* a text for node 5 that wants an ack
    [msg |-> Msg(97, 3, 5, DataText(2), 3, TRUE), rx |-> GoodSignal]
}

InitLong ==
    /\ inqueue = <<>>
    /\ outqueue = <<>>
    /\ frames = LongFrames
    /\ horizon = LongTime
    /\ rx_left = MaxLongFrames
    /\ err_left = 0
    /\ InitDevice

SpecLong == InitLong /\ [][Next]_vars

\* frames whose header fields a well-behaved sender would not produce
WildFrames == {
    \* a discovery that claims to have started with ttl 1 and still has ttl 3
    [msg |-> Msg(72, 4, None, Discovery(1, 0), 3, TRUE), rx |-> GoodSignal],
    \* a discovery relayed twice
    [msg |-> Msg(73, 4, None, Discovery(3, 0), 1, TRUE), rx |-> GoodSignal],
    \* a text for this node
    [msg |-> Msg(42, 2, uid, DataText(1), 3, TRUE), rx |-> GoodSignal]
}

InitWild ==
    /\ inqueue = <<>>
    /\ outqueue = <<>>
    /\ frames = WildFrames
    /\ horizon = MaxTime
    /\ rx_left = MaxRxFrames
    /\ err_left = 0
    /\ InitDevice

\* a build with overflow checks (the debug profile): the subtraction
\* original_ttl - ttl of the Discovery arm panics when ttl > original_ttl, and
\* the engine stops inside try_wait_message
RxPanic ==
    /\ pc = "rx"
    /\ now < horizon
    /\ rx_left > 0
    /\ \E f \in frames :
        /\ f.msg.payload.tag = "Discovery"
        /\ f.msg.ttl > f.msg.payload.a
        /\ Commit(update_link_quality(
                [Dev(0, "tx") EXCEPT !.state = "Receiving", !.now = @ + RX_SETTLE_MS],
                f.msg.source_id, f.rx.rssi, f.rx.snr))
        /\ rx_msg' = f.msg
    /\ rx_left' = rx_left - 1
    /\ pc' = "panicked"
    /\ UNCHANGED <<last_route_refresh, frames, horizon>>

\* the loop in either build: RxFrame wraps the subtraction (the release
\* profile), RxPanic checks it
NextWild ==
    \/ Next
    \/ RxPanic

SpecWild == InitWild /\ [][NextWild]_vars

----------------------------------------------------------------------------
(* The routing table on its own: a client calling the pub methods of        *)
(* RoutingTable (src/src/route/routing_table.rs) in any order while the     *)
(* clock advances.  The engine loop stands still (pc = "table").            *)

MaxRtOps == 4
RtShortTick == 1000
RtLongTick == 301000
RtWear == 6

RtDests == {5, 10, 137}

\* the part of a device record the RoutingTable methods use
RtDev(rs, links, t) ==
    [routes |-> rs, link_qualities |-> links, now |-> t, failed_log |-> <<>>]

RECURSIVE RtFailures(_, _, _)
RtFailures(d, node_id, n) ==
    IF n = 0 THEN d ELSE RtFailures(record_failed_delivery(d, node_id), node_id, n - 1)

\* destination 5 behind two equally good two-hop routes, through 7 (a link
\* with a poor signal) and through 8
SmallTable ==
    LET linked == update_link_quality(RtDev(<<>>, NoLinks, 0), 7, -120, -20)
        first == update(linked, 5, Route_with_quality(7, 2, 127, 0))
    IN  update(first, 5, Route_with_quality(8, 2, 127, 0))

\* the same after RtWear failed deliveries through 7
WornTable == RtFailures(SmallTable, 7, RtWear)

\* MAX_ROUTES neighbours, heard in the order 10, 11, ... over two seconds
RECURSIVE FillTable(_, _, _)
FillTable(d, lo, hi) ==
    IF lo = hi
    THEN LET t == ((lo - 1) \div 64) * RtShortTick
         IN  update([d EXCEPT !.now = t], 9 + lo, Route_with_quality(9 + lo, 1, 200, t))
    ELSE LET half == FillTable(d, lo, (lo + hi) \div 2)
         IN  IF Len(half.routes) > 0 THEN FillTable(half, (lo + hi) \div 2 + 1, hi) ELSE half

FullTable == FillTable(RtDev(<<>>, NoLinks, 0), 1, MAX_ROUTES)

InitRT ==
    /\ \E d \in {RtDev(<<>>, NoLinks, 0), SmallTable, WornTable, FullTable} :
        /\ routes = d.routes
        /\ link_qualities = d.link_qualities
        /\ now = d.now
    /\ pc = "table"
    /\ inqueue = <<>>
    /\ outqueue = <<>>
    /\ pending_acks = <<>>
    /\ state = "Idle"
    /\ next_message_id = 0
    /\ last_route_refresh = 0
    /\ frames = {}
    /\ horizon = 0
    /\ rx_left = 0
    /\ err_left = 0
    /\ rx_msg = NoMsg
    /\ txlog = <<>>
    /\ failed_log = <<>>
    /\ before_retain = <<>>
    /\ sent_count = NoLinks
    /\ given_up = {}
    /\ rt_log = NoRtLog
    /\ rt_left = MaxRtOps
    /\ wire = NoWire
    /\ net = NoNet

\* one call: the table and the clock become those of d
RtCall(d, op, dest, route) ==
    /\ rt_left > 0
    /\ routes' = d.routes
    /\ link_qualities' = d.link_qualities
    /\ now' = d.now
    /\ rt_log' = [op |-> op, dest |-> dest, route |-> route, before |-> routes]
    /\ rt_left' = rt_left - 1
    /\ UNCHANGED <<pc, inqueue, outqueue, pending_acks, state, next_message_id,
                   last_route_refresh, frames, horizon, wire, net, rx_left, err_left, rx_msg,
                   txlog,
                   failed_log, before_retain, sent_count, given_up>>

\* the routes a client announces for dest: a fresh two-hop route through 7 or
\* through 8, a direct route through 9, or a route dest's entry holds, heard again
RtAnnounced(dest) ==
    LET i == EntryIdx(routes, dest)
        stored == IF i = 0 THEN {}
                  ELSE {routes[i].routes[k] : k \in 1..Len(routes[i].routes)}
    IN  {Route_with_quality(h, 2, 127, now) : h \in {7, 8}}
        \cup {Route_with_quality(9, 1, 200, now)}
        \cup {Route_with_quality(r.next_hop, r.hop_count, r.quality, now) : r \in stored}

RtUpdate ==
    /\ pc = "table"
    /\ \E dest \in RtDests : \E r \in RtAnnounced(dest) :
        RtCall(update(RtDev(routes, link_qualities, now), dest, r), "update", dest, r)

RtLookup ==
    /\ pc = "table"
    /\ \E dest \in RtDests :
        RtCall(lookup_route_touch(RtDev(routes, link_qualities, now), dest),
               "lookup", dest, lookup_route(RtDev(routes, link_qualities, now), dest))

RtCleanup ==
    /\ pc = "table"
    /\ RtCall(cleanup(RtDev(routes, link_qualities, now)), "cleanup", None, NoRoute)

RtLink ==
    /\ pc = "table"
    /\ RtCall(update_link_quality(RtDev(routes, link_qualities, now), 8, -80, 5),
              "link", 8, NoRoute)

RtFailed ==
    /\ pc = "table"
    /\ RtCall(record_failed_delivery(RtDev(routes, link_qualities, now), 7),
              "failed", 7, NoRoute)

\* Instant::now() moves on between two calls
RtTick ==
    /\ pc = "table"
    /\ \E step \in {RtShortTick, RtLongTick} :
        RtCall(RtDev(routes, link_qualities, now + step), "tick", None, NoRoute)

NextRT ==
    \/ RtUpdate
    \/ RtLookup
    \/ RtCleanup
    \/ RtLink
    \/ RtFailed
    \/ RtTick

SpecRT == InitRT /\ [][NextRT]_vars

----------------------------------------------------------------------------
(* The route preference on its own: an entry with MAX_ROUTES_PER_DEST       *)
(* alternates whose best route is chosen by find_best_route_idx, that is by *)
(* is_better_route (src/src/route/routing_table.rs).                        *)

\* the routes an alternate can be: quality scores up to the top of the u8
\* range, direct and far, heard at two instants, active or not
OrderRoutes(next_hop) ==
    {[Route_with_quality(next_hop, hops, quality, t) EXCEPT !.is_active = active] :
        hops \in {1, 5}, quality \in {100, 115, 130, 230, 255},
        t \in {0, 1000}, active \in BOOLEAN}

\* is_better_route in a build with overflow checks: TRUE when one of the u8
\* additions it gets to evaluate does not fit in 8 bits
is_better_route_panics(route1, route2) ==
    IF route1.is_active # route2.is_active THEN FALSE
    ELSE IF route2.quality + 20 > 255 THEN TRUE
    ELSE IF route1.quality > route2.quality + 20 THEN FALSE
    ELSE IF route1.quality + 20 > 255 THEN TRUE
    ELSE IF route2.quality > route1.quality + 20 THEN FALSE
    ELSE IF route1.hop_count + 1 > 255 THEN TRUE
    ELSE IF route1.hop_count + 1 < route2.hop_count THEN FALSE
    ELSE route2.hop_count + 1 > 255

\* find_best_route_idx in that build: TRUE when one of its comparisons panics
RECURSIVE BestFromPanics(_, _, _)
BestFromPanics(rs, i, best) ==
    IF i > Len(rs) THEN FALSE
    ELSE IF is_better_route_panics(rs[i], rs[best]) THEN TRUE
    ELSE IF is_better_route(rs[i], rs[best]) THEN BestFromPanics(rs, i + 1, i)
    ELSE BestFromPanics(rs, i + 1, best)

InitOrder ==
    /\ pc = "order"
    /\ \E r1 \in OrderRoutes(7), r2 \in OrderRoutes(8), r3 \in OrderRoutes(9) :
        routes = <<[RouteEntry_new(5, r1, 1000) EXCEPT !.routes = <<r1, r2, r3>>]>>
    /\ now = 1000
    /\ inqueue = <<>>
    /\ outqueue = <<>>
    /\ pending_acks = <<>>
    /\ link_qualities = NoLinks
    /\ state = "Idle"
    /\ next_message_id = 0
    /\ last_route_refresh = 0
    /\ frames = {}
    /\ horizon = 0
    /\ rx_left = 0
    /\ err_left = 0
    /\ rx_msg = NoMsg
    /\ txlog = <<>>
    /\ failed_log = <<>>
    /\ before_retain = <<>>
    /\ sent_count = NoLinks
    /\ given_up = {}
    /\ rt_log = NoRtLog
    /\ rt_left = 0
    /\ wire = NoWire
    /\ net = NoNet

\* update_primary_idx in a build without overflow checks (the release
\* profile): the u8 additions wrap
ChoosePrimary ==
    /\ pc = "order"
    /\ routes' = <<update_primary_idx(routes[1])>>
    /\ pc' = "ordered"
    /\ UNCHANGED <<inqueue, outqueue, pending_acks, link_qualities, state,
                   next_message_id, now, last_route_refresh, frames, horizon, rx_left,
                   err_left, rx_msg, txlog, failed_log, before_retain, sent_count,
                   given_up, rt_log, rt_left, wire, net>>

\* the same call in a build with overflow checks (the debug profile), when a
\* comparison adds past 255: the engine panics
ChoosePrimaryPanic ==
    /\ pc = "order"
    /\ BestFromPanics(routes[1].routes, 2, 1)
    /\ pc' = "panicked"
    /\ UNCHANGED <<inqueue, outqueue, pending_acks, routes, link_qualities, state,
                   next_message_id, now, last_route_refresh, frames, horizon, rx_left,
                   err_left, rx_msg, txlog, failed_log, before_retain, sent_count,
                   given_up, rt_log, rt_left, wire, net>>

NextOrder ==
    \/ ChoosePrimary
    \/ ChoosePrimaryPanic

SpecOrder == InitOrder /\ [][NextOrder]_vars

----------------------------------------------------------------------------
(* A network: two nodes in radio range of each other, each running the      *)
(* engine.  What one node hands to its radio is in flight to the other.     *)
(* The application of node 1 has queued broadcast texts; a broadcast text   *)
(* takes the same path through every node, whatever its uid.                *)

\* the two nodes
NetNodes == {1, 2}
NetTtl == 2
MaxNetMessages == 2
MaxNetSends == 5

\* the broadcast texts the application of a node queued, built by Message::new
NetQueue(n) == [i \in 1..n |-> Message_new(i - 1, 1, None, DataText(i - 1), NetTtl, FALSE)]

InitNet ==
    /\ pc = "net"
    /\ inqueue = <<>>
    /\ outqueue = <<>>
    /\ pending_acks = <<>>
    /\ routes = <<>>
    /\ link_qualities = NoLinks
    /\ state = "Idle"
    /\ next_message_id = 0
    /\ now = 0
    /\ last_route_refresh = 0
    /\ frames = {}
    /\ horizon = 0
    /\ rx_left = 0
    /\ err_left = 0
    /\ rx_msg = NoMsg
    /\ txlog = <<>>
    /\ failed_log = <<>>
    /\ before_retain = <<>>
    /\ sent_count = NoLinks
    /\ given_up = {}
    /\ rt_log = NoRtLog
    /\ rt_left = 0
    /\ wire = NoWire
    /\ \E k \in 1..MaxNetMessages :
        net = [dev |-> [n \in NetNodes |->
                          [Dev(0, "tx") EXCEPT !.outqueue = IF n = 1 THEN NetQueue(k) ELSE <<>>]],
               air |-> [n \in NetNodes |-> <<>>],
               sent |-> [i \in 0..(k - 1) |-> 0]]

NetUnchanged ==
    UNCHANGED <<pc, inqueue, outqueue, pending_acks, routes, link_qualities, state,
                next_message_id, now, last_route_refresh, frames, horizon, rx_left,
                err_left, rx_msg, txlog, failed_log, before_retain, sent_count,
                given_up, rt_log, rt_left, wire>>

\* how many of the messages handed to the radio carry the id
SentOf(log, id) == Cardinality({k \in 1..Len(log) : log[k].msg.message_id = id})

\* node n runs process_outqueue: what it transmits is in flight to the others
NetTransmit ==
    /\ pc = "net"
    /\ \E n \in NetNodes :
        /\ Len(net.dev[n].outqueue) # 0
        /\ \A i \in DOMAIN net.sent : net.sent[i] < MaxNetSends
        /\ LET d == process_outqueue([net.dev[n] EXCEPT !.txlog = <<>>])
               heard == [k \in 1..Len(d.txlog) |-> d.txlog[k].msg]
           IN  net' = [dev |-> [net.dev EXCEPT ![n] = d],
                       air |-> [m \in NetNodes |->
                                  IF m = n THEN net.air[m] ELSE net.air[m] \o heard],
                       sent |-> [i \in DOMAIN net.sent |-> net.sent[i] + SentOf(d.txlog, i)]]
    /\ NetUnchanged

\* node n runs try_wait_message and decodes the frame that reached it first
NetReceive ==
    /\ pc = "net"
    /\ \E n \in NetNodes :
        /\ Len(net.air[n]) # 0
        /\ LET received == [net.dev[n] EXCEPT !.state = "Receiving",
                                              !.now = @ + RX_SETTLE_MS,
                                              !.txlog = <<>>]
               handled == process_message_with_rx_info(received, Head(net.air[n]), GoodSignal)
           IN  net' = [net EXCEPT !.dev[n] = [handled EXCEPT !.state = "Idle"],
                                  !.air[n] = Tail(@)]
    /\ NetUnchanged

\* node n runs process_inqueue
NetInqueue ==
    /\ pc = "net"
    /\ \E n \in NetNodes :
        /\ Len(net.dev[n].inqueue) # 0
        /\ net' = [net EXCEPT !.dev[n] = process_inqueue([@ EXCEPT !.txlog = <<>>])]
    /\ NetUnchanged

NextNet ==
    \/ NetTransmit
    \/ NetReceive
    \/ NetInqueue

SpecNet == InitNet /\ [][NextNet]_vars

----------------------------------------------------------------------------
(* The wire format (src/src/message.rs): a message is turned into           *)
(* MESSAGE_SIZE bytes for the radio and the receiver turns the bytes back   *)
(* into a message.  Byte k of the source is element k + 1 here.             *)

MESSAGE_SIZE == 70
CONTENT_SIZE == 64

\* Option<Uid>
SomeUid(u) == [some |-> TRUE, uid |-> u]
NoneUid == [some |-> FALSE, uid |-> 0]

\* `intent as u8`: the discriminants of enum Intent, in declaration order
Intent_as_u8(intent) ==
    CASE intent = "Data" -> 0
      [] intent = "Discover" -> 1
      [] intent = "Ping" -> 2
      [] intent = "Pong" -> 3
      [] intent = "Information" -> 4
      [] intent = "Error" -> 5
      [] intent = "Ack" -> 6

\* Result<_, MessageError>
WireOk(v) == [ok |-> TRUE, value |-> v, error |-> "none"]
WireErr(e) == [ok |-> FALSE, value |-> <<>>, error |-> e]

Intent_try_from(byte) ==
    CASE byte = 0 -> WireOk("Data")
      [] byte = 1 -> WireOk("Discover")
      [] byte = 2 -> WireOk("Ping")
      [] byte = 3 -> WireOk("Pong")
      [] byte = 4 -> WireOk("Information")
      [] byte = 5 -> WireOk("Error")
      [] byte = 6 -> WireOk("Ack")
      [] OTHER -> WireErr("InvalidIntent")

\* content bytes before the first zero byte
RECURSIVE TakeWhileNonZero(_, _)
TakeWhileNonZero(content, k) ==
    IF k > Len(content) \/ content[k] = 0 THEN 0
    ELSE 1 + TakeWhileNonZero(content, k + 1)

\* the general constructor Message::new of message.rs
WireMessage_new(intent, sender_uid, receiver_uid, content) ==
    [intent |-> intent, sender_uid |-> sender_uid, receiver_uid |-> receiver_uid,
     next_hop |-> NoneUid, length |-> TakeWhileNonZero(content, 1), ttl |-> 0,
     content |-> content]

\* an encoder that leaves the next-hop byte at zero
Message_into_bytes_no_hop(message) ==
    [k \in 1..MESSAGE_SIZE |->
        IF k = 1 THEN Intent_as_u8(message.intent)
        ELSE IF k = 2 THEN message.sender_uid
        ELSE IF k = 3
        THEN IF message.receiver_uid.some THEN message.receiver_uid.uid ELSE 0
        ELSE IF k = 4 THEN 0
        ELSE IF k = 5 THEN message.length
        ELSE IF k = 6 THEN message.ttl
        ELSE message.content[k - 6]]

\* From<Message> for [u8; MESSAGE_SIZE]
Message_into_bytes(message) ==
    [k \in 1..MESSAGE_SIZE |->
        IF k = 1 THEN Intent_as_u8(message.intent)
        ELSE IF k = 2 THEN message.sender_uid
        ELSE IF k = 3
        THEN IF message.receiver_uid.some THEN message.receiver_uid.uid ELSE 0
        ELSE IF k = 4
        THEN IF message.next_hop.some THEN message.next_hop.uid ELSE 0
        ELSE IF k = 5 THEN message.length
        ELSE IF k = 6 THEN message.ttl
        ELSE message.content[k - 6]]

\* TryFrom<&[u8]> for Message
Message_try_from(bytes) ==
    IF Len(bytes) # MESSAGE_SIZE THEN WireErr("InvalidLength")
    ELSE LET intent == Intent_try_from(bytes[1])
         IN  IF ~intent.ok THEN WireErr(intent.error)
             ELSE IF bytes[2] = 0 THEN WireErr("InvalidUid")
             ELSE WireOk(
                [intent |-> intent.value,
                 sender_uid |-> bytes[2],
                 receiver_uid |-> IF bytes[3] = 0 THEN NoneUid ELSE SomeUid(bytes[3]),
                 next_hop |-> IF bytes[4] = 0 THEN NoneUid ELSE SomeUid(bytes[4]),
                 length |-> bytes[5],
                 ttl |-> bytes[6],
                 content |-> [k \in 1..CONTENT_SIZE |-> bytes[k + 6]]])

\* content arrays: a prefix followed by zero bytes (a full array when the
\* prefix has CONTENT_SIZE bytes)
Content(prefix) ==
    [k \in 1..CONTENT_SIZE |-> IF k <= Len(prefix) THEN prefix[k] ELSE 0]

WireContents == {
    Content(<<>>),
    Content(<<1, 2, 3, 4>>),
    Content(<<7, 0, 9>>),
    Content([k \in 1..CONTENT_SIZE |-> 255])
}

WireIntents == {"Data", "Discover", "Ping", "Pong", "Information", "Error", "Ack"}

\* the messages a caller can build: the constructor, then the pub fields
\* next_hop and ttl
WireMessages ==
    {[WireMessage_new(intent, sender, receiver, content)
        EXCEPT !.next_hop = hop, !.ttl = ttl] :
        intent \in WireIntents, sender \in {1, 255},
        receiver \in {NoneUid, SomeUid(2), SomeUid(255)},
        hop \in {NoneUid, SomeUid(3)}, ttl \in {0, 3, 255},
        content \in WireContents}

InitCodec ==
    /\ pc = "encode"
    /\ \E m \in WireMessages : wire = [message |-> m, bytes |-> <<>>, decoded |-> <<>>]
    /\ net = NoNet
    /\ inqueue = <<>>
    /\ outqueue = <<>>
    /\ pending_acks = <<>>
    /\ routes = <<>>
    /\ link_qualities = NoLinks
    /\ state = "Idle"
    /\ next_message_id = 0
    /\ now = 0
    /\ last_route_refresh = 0
    /\ frames = {}
    /\ horizon = 0
    /\ rx_left = 0
    /\ err_left = 0
    /\ rx_msg = NoMsg
    /\ txlog = <<>>
    /\ failed_log = <<>>
    /\ before_retain = <<>>
    /\ sent_count = NoLinks
    /\ given_up = {}
    /\ rt_log = NoRtLog
    /\ rt_left = 0

\* the sender turns the message into the bytes it hands to the radio
Encode ==
    /\ pc = "encode"
    /\ wire' = [wire EXCEPT !.bytes = Message_into_bytes(wire.message)]
    /\ pc' = "decode"
    /\ UNCHANGED <<inqueue, outqueue, pending_acks, routes, link_qualities, state,
                   next_message_id, now, last_route_refresh, frames, horizon, rx_left,
                   err_left, rx_msg, txlog, failed_log, before_retain, sent_count,
                   given_up, rt_log, rt_left, net>>

\* the receiver turns the bytes back into a message
Decode ==
    /\ pc = "decode"
    /\ wire' = [wire EXCEPT !.decoded = Message_try_from(wire.bytes)]
    /\ pc' = "decoded"
    /\ UNCHANGED <<inqueue, outqueue, pending_acks, routes, link_qualities, state,
                   next_message_id, now, last_route_refresh, frames, horizon, rx_left,
                   err_left, rx_msg, txlog, failed_log, before_retain, sent_count,
                   given_up, rt_log, rt_left, net>>

NextCodec ==
    \/ Encode
    \/ Decode

SpecCodec == InitCodec /\ [][NextCodec]_vars

----------------------------------------------------------------------------
(* Properties of the engine loop                                            *)

\* the messages a receive step emitted that carry the payload of the frame m:
\* those handed to the radio (log) and those put on OutQueue (after, beyond
\* what before held)
Copies(log, before, after, m) ==
    {c \in {log[k].msg : k \in 1..Len(log)}
            \cup {after[k] : k \in (Len(before) + 1)..Len(after)} :
        c.payload = m.payload}

\* C1: in every reachable state InQueue holds at most INQUEUE_SIZE messages,
\* OutQueue at most OUTQUEUE_SIZE messages and the pending-ack table at most
\* MAX_PENDING_ACKS entries.
C1_QueuesAndTableBounded ==
    /\ Len(inqueue) <= INQUEUE_SIZE
    /\ Len(outqueue) <= OUTQUEUE_SIZE
    /\ Len(pending_acks) <= MAX_PENDING_ACKS

\* the table is full and a req_ack message was just sent without an entry
C1_TableFullAndInsertRefused ==
    /\ Len(pending_acks) = MAX_PENDING_ACKS
    /\ \E k \in 1..Len(txlog) :
        txlog[k].msg.req_ack /\ ~txlog[k].tracked /\ txlog[k].table_full

\* C2: no message with ttl = 0 is ever on OutQueue, whatever frames arrive.
C2_NoExpiredMessageOnOutQueue ==
    \A k \in 1..Len(outqueue) : outqueue[k].ttl > 0

\* C3: when a received unicast message M for another node is forwarded, the
\* forwarded message has ttl = M.ttl - 1, source = this node's uid and the
\* message_id of M.
C3_ForwardKeepsIdAndDecrementsTtl ==
    (pc = "inqueue" /\ rx_msg # NoMsg /\ rx_msg.destination_id \notin {None, uid})
    => \A k \in 1..Len(txlog) :
        /\ txlog[k].msg.ttl = rx_msg.ttl - 1
        /\ txlog[k].msg.source_id = uid
        /\ txlog[k].msg.message_id = rx_msg.message_id

\* C4: when the node holds a usable route to D and receives a non-expired
\* unicast message for D (D not this node), a copy is forwarded that still has
\* destination D, the same payload and the same req_ack flag, and the receive
\* step puts nothing on InQueue.
C4_ForwardKeepsDestination ==
    [][(/\ pc = "rx"
        /\ rx_msg' # NoMsg
        /\ rx_msg'.destination_id \notin {None, uid}
        /\ ~is_expired(rx_msg')
        /\ IsSome(lookup_route(Dev(0, "tx"), rx_msg'.destination_id)))
       => /\ Copies(txlog', outqueue, outqueue', rx_msg') # {}
          /\ \A c \in Copies(txlog', outqueue, outqueue', rx_msg') :
                /\ c.destination_id = rx_msg'.destination_id
                /\ c.req_ack = rx_msg'.req_ack
          /\ inqueue' = inqueue]_vars

\* C5: a received message with ttl = 1 for another node is not relayed: the
\* receive step neither transmits nor enqueues a copy of it.
C5_LastHopIsNotRelayed ==
    [][(/\ pc = "rx"
        /\ rx_msg' # NoMsg
        /\ rx_msg'.ttl = 1
        /\ rx_msg'.destination_id \notin {None, uid})
       => Copies(txlog', outqueue, outqueue', rx_msg') = {}]_vars

\* C6: right after every transmission of a req_ack message, a pending-ack entry
\* with its message_id exists or the pending-ack table is full.
C6_TransmittedReqAckIsTracked ==
    \A k \in 1..Len(txlog) :
        txlog[k].msg.req_ack => (txlog[k].tracked \/ txlog[k].table_full)

\* C7: an entry leaves the pending-ack table only after its acknowledged flag
\* has been set: whenever an entry of the table is gone after a step, the
\* table retain() was applied to in that step held it with the flag set.
C7_RemovedOnlyAfterAcknowledged ==
    [][\A i \in 1..Len(pending_acks) :
        ~contains_key(pending_acks', pending_acks[i].id)
        => \E j \in 1..Len(before_retain') :
            /\ before_retain'[j].id = pending_acks[i].id
            /\ before_retain'[j].is_acknowledged]_vars

\* the retry pass has just removed an entry: one that ran out of attempts, and
\* one that a received ack had marked
C7_EntryRemoved ==
    /\ pc = "refresh"
    /\ \E j \in 1..Len(before_retain) :
        /\ before_retain[j].is_acknowledged
        /\ before_retain[j].id \in given_up
        /\ ~contains_key(pending_acks, before_retain[j].id)

\* C8: every pending-ack entry has attempts <= MAX_ACK_ATTEMPTS.
C8_AttemptsBounded ==
    \A i \in 1..Len(pending_acks) : pending_acks[i].attempts <= MAX_ACK_ATTEMPTS

\* an entry has used all its attempts
C8_AttemptsExhausted ==
    \E i \in 1..Len(pending_acks) : pending_acks[i].attempts = MAX_ACK_ATTEMPTS

\* C9: for every attempt count a held by a pending-ack entry,
\* calculate_backoff(a) = min(INITIAL_BACKOFF_MS * BACKOFF_FACTOR^a,
\* MAX_BACKOFF_MS); the backoff does not decrease with a and never exceeds
\* MAX_BACKOFF_MS.
C9_BackoffFormula ==
    \A i \in 1..Len(pending_acks) :
        LET a == pending_acks[i].attempts
        IN  /\ a \in 0..MAX_ACK_ATTEMPTS
            /\ calculate_backoff(a)
                = Min(INITIAL_BACKOFF_MS * Pow(BACKOFF_FACTOR, a), MAX_BACKOFF_MS)
            /\ calculate_backoff(a) <= MAX_BACKOFF_MS
            /\ \A b \in 0..a : calculate_backoff(b) <= calculate_backoff(a)

\* the table holds entries at the first and at the last attempt count
C9_FirstAndLastAttempt ==
    /\ \E i \in 1..Len(pending_acks) : pending_acks[i].attempts = 0
    /\ \E i \in 1..Len(pending_acks) : pending_acks[i].attempts = MAX_ACK_ATTEMPTS

\* the message_ids that some frame of the run acknowledges
AckedIds ==
    {f.msg.payload.a : f \in {g \in frames : /\ g.msg.payload.tag = "Ack"
                                              /\ g.msg.payload.kind # "AckDiscovered"}}
    \cup {f.msg.message_id : f \in {g \in frames : /\ g.msg.payload.tag = "Ack"
                                                   /\ g.msg.payload.kind = "AckDiscovered"}}

\* C10: a req_ack message of this node to a unicast destination for which no
\* ack arrives is sent at most 1 + MAX_ACK_ATTEMPTS times, and once its
\* pending-ack entry has been removed for lack of attempts it stays removed.
\* (The failed delivery that goes with the removal is recorded by ScanPending
\* on the next hop of the route lookup_route finds, in failed_log.)
C10_AtMostThreeRetriesThenGone ==
    \A k \in DOMAIN sent_count :
        (k.src = uid /\ k.dst # None /\ k.id \notin AckedIds)
        => /\ sent_count[k] <= 1 + MAX_ACK_ATTEMPTS
           /\ k.id \in given_up => ~contains_key(pending_acks, k.id)

\* C11: every retry is rebuilt from its pending-ack entry, with the entry's
\* message_id, source = this node and the stored destination, payload and ttl;
\* the retry pass hands nothing to the radio and only appends the retries to
\* OutQueue, behind what OutQueue already holds.
C11_RetryRebuiltAndQueuedLast ==
    [][pc = "check"
       => /\ txlog' = <<>>
          /\ Len(outqueue') >= Len(outqueue)
          /\ SubSeq(outqueue', 1, Len(outqueue)) = outqueue
          /\ \A k \in (Len(outqueue) + 1)..Len(outqueue') :
                \E i \in 1..Len(pending_acks) :
                    /\ ShouldRetry(pending_acks[i], now)
                    /\ outqueue'[k] = Msg(pending_acks[i].id, uid,
                                          pending_acks[i].destination_uid,
                                          pending_acks[i].payload,
                                          pending_acks[i].ttl, TRUE)]_vars

\* the retry pass has just queued a retry behind another message
C11_RetryQueuedBehind ==
    /\ pc = "refresh"
    /\ Len(outqueue) >= 2
    /\ \E i \in 1..Len(pending_acks) :
        /\ pending_acks[i].attempts >= 1
        /\ pending_acks[i].timestamp = now
        /\ outqueue[Len(outqueue)].message_id = pending_acks[i].id
        /\ outqueue[1].message_id # pending_acks[i].id

\* C12: inserting a pending ack for a message_id the table already holds is a
\* no-op: sending the messages of OutQueue leaves every entry the table held as
\* it was (timestamp, attempts, acknowledged flag, payload, destination, ttl),
\* at its place, and adds no second entry for an id.
C12_InsertOfPresentIdIsNoOp ==
    [][pc = "outqueue"
       => /\ Len(pending_acks') >= Len(pending_acks)
          /\ SubSeq(pending_acks', 1, Len(pending_acks)) = pending_acks
          /\ \A i, j \in 1..Len(pending_acks') :
                pending_acks'[i].id = pending_acks'[j].id => i = j
          /\ \A k \in 1..Len(txlog') :
                contains_key(pending_acks, txlog'[k].msg.message_id)
                => add_pending_ack(Dev(0, "tx"), txlog'[k].msg).pending_acks
                    = pending_acks]_vars

\* a retry has just been sent and its entry still counts its attempts
C12_RetrySentEntryKept ==
    /\ pc = "check"
    /\ \E k \in 1..Len(txlog), i \in 1..Len(pending_acks) :
        /\ txlog[k].msg.req_ack
        /\ txlog[k].msg.message_id = pending_acks[i].id
        /\ pending_acks[i].attempts >= 1
        /\ pending_acks[i].timestamp < now - TX_SETTLE_MS


----------------------------------------------------------------------------
(* Properties of the routing table                                          *)

\* C13: when RoutingTable::cleanup has returned, every route left in every
\* entry of the table is active and not older than ROUTE_EXPIRY_SECONDS (300 s)
C13_CleanupLeavesValidRoutes ==
    rt_log.op = "cleanup"
        => \A i \in 1..Len(routes) : \A k \in 1..Len(routes[i].routes) :
              /\ routes[i].routes[k].is_active
              /\ (now - routes[i].routes[k].last_updated) \div 1000 <= 300

\* cleanup dropped an inactive route that had not expired and kept another
\* route of the same entry
C13_InactiveRouteDropped ==
    /\ rt_log.op = "cleanup"
    /\ \E i \in 1..Len(routes), j \in 1..Len(rt_log.before) :
        /\ routes[i].dest = rt_log.before[j].dest
        /\ Len(routes[i].routes) >= 1
        /\ \E k \in 1..Len(rt_log.before[j].routes) :
            /\ ~rt_log.before[j].routes[k].is_active
            /\ ~Route_is_expired(rt_log.before[j].routes[k], ROUTE_EXPIRY_SECONDS, now)
            /\ \A m \in 1..Len(routes[i].routes) :
                  routes[i].routes[m].next_hop # rt_log.before[j].routes[k].next_hop


\* C14: an update() for a destination without an entry, made while the map
\* holds MAX_ROUTES destinations, evicts exactly one destination, one whose
\* last_used is the oldest of all entries, and inserts the new one; an update()
\* made while the map is not full, or for a destination that has an entry,
\* evicts none
C14_EvictsOneLeastRecentlyUsed ==
    rt_log.op = "update"
        => LET before == rt_log.before
               dests(rs) == {rs[i].dest : i \in 1..Len(rs)}
               evicted == dests(before) \ dests(routes)
           IN  IF rt_log.dest \notin dests(before) /\ Len(before) = MAX_ROUTES
               THEN /\ Cardinality(evicted) = 1
                    /\ rt_log.dest \in dests(routes)
                    /\ \A i, j \in 1..Len(before) :
                          before[i].dest \in evicted
                              => before[i].last_used <= before[j].last_used
               ELSE evicted = {}

\* a full map whose first entry was looked up: the new destination takes the
\* place of a later entry
C14_EvictedIsNotFirstInserted ==
    /\ rt_log.op = "update"
    /\ Len(rt_log.before) = MAX_ROUTES
    /\ Len(routes) = MAX_ROUTES
    /\ EntryIdx(rt_log.before, rt_log.dest) = 0
    /\ EntryIdx(routes, rt_log.dest) # 0
    /\ EntryIdx(routes, rt_log.before[1].dest) # 0


\* C15: an update(dest, r) whose r has the next_hop, hop_count and quality of
\* a route dest's entry holds changes nothing but that route's last_updated:
\* every entry keeps its routes, their is_active flags and its primary index
C15_SameRouteUpdateOnlyTouches ==
    rt_log.op = "update"
        => LET before == rt_log.before
               r == rt_log.route
               j == EntryIdx(before, rt_log.dest)
               same(a, b) == [a EXCEPT !.last_updated = 0] = [b EXCEPT !.last_updated = 0]
               held == j # 0 /\ \E k \in 1..Len(before[j].routes) :
                          /\ before[j].routes[k].next_hop = r.next_hop
                          /\ before[j].routes[k].hop_count = r.hop_count
                          /\ before[j].routes[k].quality = r.quality
           IN  held
               => /\ Len(routes) = Len(before)
                  /\ \A i \in 1..Len(before) :
                        /\ routes[i].dest = before[i].dest
                        /\ routes[i].primary_idx = before[i].primary_idx
                        /\ Len(routes[i].routes) = Len(before[i].routes)
                        /\ \A k \in 1..Len(before[i].routes) :
                              IF i = j /\ before[i].routes[k].next_hop = r.next_hop
                              THEN same(routes[i].routes[k], before[i].routes[k])
                              ELSE routes[i].routes[k] = before[i].routes[k]


\* C16: lookup(dest) returns the primary route when it is usable (active and
\* not older than 300 s); otherwise a usable route of the entry, which becomes
\* the primary; otherwise the stale primary; it returns None only when dest has
\* no entry or no primary, and never an unusable route while the entry holds a
\* usable one
C16_LookupPrefersUsableRoute ==
    rt_log.op = "lookup"
        => LET before == rt_log.before
               result == rt_log.route
               j == EntryIdx(before, rt_log.dest)
               held == {before[j].routes[k] : k \in 1..Len(before[j].routes)}
               usable(r) == r.is_active /\ (now - r.last_updated) \div 1000 <= 300
               has_primary == before[j].primary_idx < Len(before[j].routes)
               primary == before[j].routes[before[j].primary_idx + 1]
           IN  IF j = 0 THEN result = NoRoute
               ELSE /\ (has_primary /\ usable(primary))
                          => result = primary /\ routes[j].primary_idx = before[j].primary_idx
                    /\ (~(has_primary /\ usable(primary)) /\ \E r \in held : usable(r))
                          => /\ result \in held
                             /\ usable(result)
                             /\ routes[j].routes[routes[j].primary_idx + 1] = result
                    /\ (has_primary /\ \A r \in held : ~usable(r)) => result = primary
                    /\ result = NoRoute => ~has_primary
                    /\ (\E r \in held : usable(r)) => usable(result)

\* the primary had been deactivated and the lookup answered with the
\* alternate, now the primary
C16_AlternatePromoted ==
    /\ rt_log.op = "lookup"
    /\ EntryIdx(rt_log.before, rt_log.dest) # 0
    /\ LET old == rt_log.before[EntryIdx(rt_log.before, rt_log.dest)]
           new == routes[EntryIdx(routes, rt_log.dest)]
       IN  /\ ~primary_route(old).is_active
           /\ rt_log.route.is_active
           /\ rt_log.route # primary_route(old)
           /\ new.primary_idx # old.primary_idx
           /\ primary_route(new) = rt_log.route


----------------------------------------------------------------------------
(* Properties of the receive path                                           *)

\* C17: once a decoded frame from source S has been dispatched, whatever its
\* destination and payload, the routing table holds an active route for S
\* with next_hop = S and hop_count = 1
C17_DirectRouteToSourceInstalled ==
    (pc = "inqueue" /\ rx_msg # NoMsg)
        => \E i \in 1..Len(routes) :
              /\ routes[i].dest = rx_msg.source_id
              /\ \E k \in 1..Len(routes[i].routes) :
                    /\ routes[i].routes[k].next_hop = rx_msg.source_id
                    /\ routes[i].routes[k].hop_count = 1
                    /\ routes[i].routes[k].is_active


\* C15, amended: an update(dest, r) whose r has the next_hop, hop_count and
\* quality of a route dest's entry holds leaves every other entry and every
\* other route of dest as they were and adds or removes no route; the stored
\* route is overwritten by r (active, last_updated = now, quality taken from
\* the link record of its next hop when there is one), and it becomes the
\* primary exactly when it was not the primary and is_better_route prefers it
\* to the primary
C15_SameRouteUpdateOverwritesAndReelects ==
    rt_log.op = "update"
        => LET before == rt_log.before
               r == rt_log.route
               j == EntryIdx(before, rt_log.dest)
               held == j # 0 /\ \E k \in 1..Len(before[j].routes) :
                          /\ before[j].routes[k].next_hop = r.next_hop
                          /\ before[j].routes[k].hop_count = r.hop_count
                          /\ before[j].routes[k].quality = r.quality
               k == CHOOSE k \in 1..Len(before[j].routes) :
                        before[j].routes[k].next_hop = r.next_hop
               stored == [r EXCEPT !.quality =
                            IF r.next_hop \in DOMAIN link_qualities
                            THEN LinkQuality_calculate_quality(link_qualities[r.next_hop])
                            ELSE @]
               primary == before[j].routes[before[j].primary_idx + 1]
           IN  held
               => /\ Len(routes) = Len(before)
                  /\ \A i \in 1..Len(before) : i # j => routes[i] = before[i]
                  /\ routes[j].dest = before[j].dest
                  /\ Len(routes[j].routes) = Len(before[j].routes)
                  /\ \A m \in 1..Len(before[j].routes) :
                        m # k => routes[j].routes[m] = before[j].routes[m]
                  /\ routes[j].routes[k] = stored
                  /\ stored.is_active /\ stored.last_updated = now
                  /\ routes[j].primary_idx =
                        IF before[j].primary_idx # k - 1
                           /\ before[j].primary_idx < Len(before[j].routes)
                           /\ is_better_route(stored, primary)
                        THEN k - 1 ELSE before[j].primary_idx

\* a route that ties with the primary in quality and hop count is heard again
\* a second later and takes the primary's place
C15_RefreshedRouteBecamePrimary ==
    /\ rt_log.op = "update"
    /\ EntryIdx(rt_log.before, rt_log.dest) # 0
    /\ LET old == rt_log.before[EntryIdx(rt_log.before, rt_log.dest)]
           new == routes[EntryIdx(routes, rt_log.dest)]
       IN  /\ Len(old.routes) = 2
           /\ old.routes[1].quality = old.routes[2].quality
           /\ old.routes[1].hop_count = old.routes[2].hop_count
           /\ old.routes[1].is_active /\ old.routes[2].is_active
           /\ rt_log.route.next_hop = old.routes[2].next_hop
           /\ rt_log.route.quality = old.routes[2].quality
           /\ rt_log.route.hop_count = old.routes[2].hop_count
           /\ old.primary_idx = 0
           /\ new.primary_idx = 1


\* C18: when a Data or Command message with req_ack, addressed to this node,
\* is received from S with message_id i, an Ack::Success{i} from this node to
\* S with the received ttl and req_ack = false is put on OutQueue; and
\* transmitting an ack creates no pending-ack entry: every entry a step adds
\* belongs to a req_ack message the step transmitted
C18_AckSuccessEnqueuedUntracked ==
    [][/\ (/\ pc = "rx"
           /\ rx_msg' # NoMsg
           /\ rx_msg'.payload.tag \in {"Data", "Command"}
           /\ rx_msg'.req_ack
           /\ rx_msg'.destination_id = uid)
          => \E k \in (Len(outqueue) + 1)..Len(outqueue') :
                /\ outqueue'[k].payload = AckSuccess(rx_msg'.message_id)
                /\ outqueue'[k].source_id = uid
                /\ outqueue'[k].destination_id = rx_msg'.source_id
                /\ outqueue'[k].ttl = rx_msg'.ttl
                /\ ~outqueue'[k].req_ack
       /\ \A id \in PendingIds(pending_acks') \ PendingIds(pending_acks) :
             \E k \in 1..Len(txlog') :
                /\ txlog'[k].msg.message_id = id
                /\ txlog'[k].msg.req_ack]_vars

\* C18, amended: the same whenever OutQueue holds fewer than OUTQUEUE_SIZE
\* messages at the reception; on a full OutQueue the ack is dropped
C18_AckSuccessEnqueuedIfRoom ==
    [][/\ (/\ pc = "rx"
           /\ rx_msg' # NoMsg
           /\ rx_msg'.payload.tag \in {"Data", "Command"}
           /\ rx_msg'.req_ack
           /\ rx_msg'.destination_id = uid)
          => IF Len(outqueue) < OUTQUEUE_SIZE
             THEN /\ Len(outqueue') = Len(outqueue) + 1
                  /\ outqueue'[Len(outqueue')].payload = AckSuccess(rx_msg'.message_id)
                  /\ outqueue'[Len(outqueue')].source_id = uid
                  /\ outqueue'[Len(outqueue')].destination_id = rx_msg'.source_id
                  /\ outqueue'[Len(outqueue')].ttl = rx_msg'.ttl
                  /\ ~outqueue'[Len(outqueue')].req_ack
             ELSE outqueue' = outqueue
       /\ \A id \in PendingIds(pending_acks') \ PendingIds(pending_acks) :
             \E k \in 1..Len(txlog') :
                /\ txlog'[k].msg.message_id = id
                /\ txlog'[k].msg.req_ack]_vars

\* the ack for the frame received in this iteration has been transmitted and
\* the pending-ack table does not hold its id
C18_AckTransmittedUntracked ==
    /\ pc = "check"
    /\ rx_msg # NoMsg
    /\ rx_msg.payload.tag = "Command"
    /\ rx_msg.req_ack
    /\ rx_msg.destination_id = uid
    /\ \E k \in 1..Len(txlog) :
        /\ txlog[k].msg.payload = AckSuccess(rx_msg.message_id)
        /\ txlog[k].msg.source_id = uid
        /\ txlog[k].msg.destination_id = rx_msg.source_id
        /\ txlog[k].msg.ttl = rx_msg.ttl
        /\ ~txlog[k].msg.req_ack
        /\ ~contains_key(pending_acks, txlog[k].msg.message_id)


\* C19: when the iteration that received a frame addressed to this node (one
\* that has not expired) ends and the loop is back at its receive step,
\* InQueue holds the received message exactly once: it waits there for the
\* application
C19_ReceivedMessageStaysOnInQueue ==
    (pc = "rx" /\ rx_msg # NoMsg /\ rx_msg.destination_id = uid /\ ~is_expired(rx_msg))
        => Cardinality({k \in 1..Len(inqueue) : inqueue[k] = rx_msg}) = 1


\* C20: the immediate neighbour that receives a Discovery originated with
\* original_ttl = 1 (the frame as its originator sent it, ttl = 1) answers with
\* an AckDiscovered whose hops is 1
C20_NeighbourReportsOneHop ==
    [][(/\ pc = "rx"
        /\ rx_msg' # NoMsg
        /\ rx_msg'.payload.tag = "Discovery"
        /\ rx_msg'.payload.a = 1
        /\ rx_msg'.ttl = 1)
       => \A k \in (Len(outqueue) + 1)..Len(outqueue') :
             (outqueue'[k].payload.tag = "Ack" /\ outqueue'[k].payload.kind = "AckDiscovered")
                 => outqueue'[k].payload.a = 1]_vars


\* C22: when a broadcast frame (no destination) that has not expired is
\* received with ttl t, every copy of it the step puts on OutQueue for relay
\* has ttl = t - 1, and there is no copy when t - 1 is 0
C22_BroadcastRelayedWithDecrementedTtl ==
    [][(/\ pc = "rx"
        /\ rx_msg' # NoMsg
        /\ rx_msg'.destination_id = None
        /\ ~is_expired(rx_msg'))
       => \A k \in (Len(outqueue) + 1)..Len(outqueue') :
             (/\ outqueue'[k].payload = rx_msg'.payload
              /\ outqueue'[k].destination_id = None)
                 => /\ outqueue'[k].ttl = rx_msg'.ttl - 1
                    /\ outqueue'[k].ttl > 0]_vars


\* C23: the receive step hands nothing to the radio: a message to be relayed
\* is put on OutQueue, behind the messages already waiting there, and is
\* transmitted by a later step
C23_ReceiveStepNeverTransmits ==
    [][pc = "rx" => /\ txlog' = <<>>
                    /\ Len(outqueue') >= Len(outqueue)
                    /\ SubSeq(outqueue', 1, Len(outqueue)) = outqueue]_vars


\* C25: a receive step that decodes no frame (failure to prepare for receive,
\* receive timeout, another receive error, or a frame that does not decode)
\* leaves InQueue, OutQueue, the pending-ack table and the routing table as
\* they were, and the loop goes on to its next step
C25_RxFailureChangesNothing ==
    [][(pc = "rx" /\ rx_msg' = NoMsg)
       => /\ UNCHANGED <<inqueue, outqueue, pending_acks, routes, link_qualities>>
          /\ pc' = "inqueue"
          /\ state' = "Idle"]_vars

\* the radio failed in the first receive of the run while a message was
\* waiting on OutQueue, and the loop is at its next step
C25_RxErrorSurvived ==
    /\ pc = "inqueue"
    /\ rx_msg = NoMsg
    /\ err_left < MaxRadioErrors
    /\ now <= RX_SETTLE_MS
    /\ Len(outqueue) >= 2


\* C27: the retry pass leaves acknowledged entries alone: an entry that an
\* acknowledgement has marked is not retried, so no message with its id is
\* put on OutQueue by the pass
C27_AcknowledgedEntryNotRetried ==
    [][pc = "check"
       => \A k \in 1..Len(pending_acks) :
             pending_acks[k].is_acknowledged
                 => \A j \in (Len(outqueue) + 1)..Len(outqueue') :
                       outqueue'[j].message_id # pending_acks[k].id]_vars


\* C28: when a frame for another node D arrives and the routing table has no
\* entry for D, the frame is dropped (nothing is transmitted, it is put on no
\* queue) and a Discovery addressed to D with ttl 3 and req_ack is put on
\* OutQueue
C28_ForwardMissDropsAndDiscovers ==
    [][(/\ pc = "rx"
        /\ rx_msg' # NoMsg
        /\ rx_msg'.destination_id \notin {None, uid}
        /\ ~is_expired(rx_msg')
        /\ EntryIdx(routes, rx_msg'.destination_id) = 0)
       => /\ txlog' = <<>>
          /\ inqueue' = inqueue
          /\ \A k \in (Len(outqueue) + 1)..Len(outqueue') :
                outqueue'[k].payload # rx_msg'.payload
          /\ \E k \in (Len(outqueue) + 1)..Len(outqueue') :
                /\ outqueue'[k].payload.tag = "Discovery"
                /\ outqueue'[k].destination_id = rx_msg'.destination_id
                /\ outqueue'[k].source_id = uid
                /\ outqueue'[k].ttl = 3
                /\ outqueue'[k].req_ack]_vars


\* C28 (amended): when a frame for another node D arrives and the routing
\* table has no entry for D, the frame is dropped (nothing is transmitted, it
\* is put on no queue); a Discovery addressed to D with ttl 3 and req_ack is
\* put on OutQueue exactly when no Discovery for D is in the pending-ack table
\* and OutQueue is not full at that moment (the acknowledgement queued for the
\* frame comes first)
C28_ForwardMissDiscoversUnlessPendingOrFull ==
    [][(/\ pc = "rx"
        /\ rx_msg' # NoMsg
        /\ rx_msg'.destination_id \notin {None, uid}
        /\ rx_msg'.payload.tag \in {"Data", "Command"}
        /\ ~is_expired(rx_msg')
        /\ EntryIdx(routes, rx_msg'.destination_id) = 0)
       => LET acks == IF rx_msg'.req_ack THEN 1 ELSE 0
              fresh == (Len(outqueue) + 1)..Len(outqueue')
          IN  /\ txlog' = <<>>
              /\ inqueue' = inqueue
              /\ \A k \in fresh : outqueue'[k].payload # rx_msg'.payload
              /\ (\E k \in fresh :
                    /\ outqueue'[k].payload.tag = "Discovery"
                    /\ outqueue'[k].destination_id = rx_msg'.destination_id
                    /\ outqueue'[k].source_id = uid
                    /\ outqueue'[k].ttl = 3
                    /\ outqueue'[k].req_ack)
                 <=> (/\ ~(\E i \in 1..Len(pending_acks) :
                             /\ pending_acks[i].payload.tag = "Discovery"
                             /\ pending_acks[i].destination_uid = rx_msg'.destination_id)
                      /\ Len(outqueue) + acks < OUTQUEUE_SIZE)
              /\ \A k \in fresh : outqueue'[k].payload.tag \in {"Discovery", "Ack"}]_vars

C28_DiscoveryQueuedForMissingRoute ==
    /\ pc = "inqueue"
    /\ rx_msg # NoMsg
    /\ rx_msg.destination_id \notin {None, uid}
    /\ EntryIdx(routes, rx_msg.destination_id) = 0
    /\ Len(pending_acks) > 0
    /\ Len(outqueue) > 0
    /\ outqueue[Len(outqueue)].payload.tag = "Discovery"
    /\ outqueue[Len(outqueue)].destination_id = rx_msg.destination_id


\* C21: when an AckDiscovered addressed to this node arrives from node S while
\* the pending-ack table holds the entry of the Discovery this node sent to S,
\* that entry is marked acknowledged by the time the frame has been handled
C21_DiscoveryAckMarksDiscoveryEntry ==
    [][(/\ pc = "rx"
        /\ rx_msg' # NoMsg
        /\ rx_msg'.payload.tag = "Ack"
        /\ rx_msg'.payload.kind = "AckDiscovered"
        /\ rx_msg'.destination_id = uid)
       => \A i \in 1..Len(pending_acks) :
             (/\ pending_acks[i].payload.tag = "Discovery"
              /\ pending_acks[i].destination_uid = rx_msg'.source_id)
                 => \E j \in 1..Len(pending_acks') :
                       /\ pending_acks'[j].id = pending_acks[i].id
                       /\ pending_acks'[j].is_acknowledged]_vars


\* C26: every route stored in the routing table has hop_count >= 1, the
\* routes installed from a received AckDiscovered included
C26_StoredRoutesHaveAtLeastOneHop ==
    \A i \in 1..Len(routes) :
        \A k \in 1..Len(routes[i].routes) : routes[i].routes[k].hop_count >= 1


\* C29: on both initiation paths (a forwarding miss in the receive step, the
\* periodic route refresh) a Discovery addressed to node X is put on OutQueue
\* only if the pending-ack table holds no unacknowledged Discovery for X
C29_NoDuplicateDiscovery ==
    [][(pc = "rx" \/ pc = "refresh")
       => \A k \in (Len(outqueue) + 1)..Len(outqueue') :
             (/\ outqueue'[k].payload.tag = "Discovery"
              /\ outqueue'[k].source_id = uid
              /\ outqueue'[k].destination_id # None)
                 => \A i \in 1..Len(pending_acks) :
                       \/ pending_acks[i].is_acknowledged
                       \/ pending_acks[i].payload.tag # "Discovery"
                       \/ pending_acks[i].destination_uid # outqueue'[k].destination_id]_vars


\* C30: needs_refresh is true for a destination without a route, and for a
\* destination whose primary route was last updated more than
\* ROUTE_REFRESH_SECONDS ago
C30_NeedsRefreshAfterRefreshWindow ==
    \A dest \in 2..9 :
        LET i == EntryIdx(routes, dest)
        IN  (\/ i = 0
             \/ /\ IsSome(primary_route(routes[i]))
                /\ Route_is_expired(primary_route(routes[i]), ROUTE_REFRESH_SECONDS, now))
                => needs_refresh(Dev(0, "tx"), dest)


\* C24: decoding the MESSAGE_SIZE bytes a message is encoded to gives back
\* the message, field by field (intent, sender, receiver, next hop, length,
\* ttl, content); an absent receiver or next hop is the byte 0 on the wire
C24_CodecRoundTrip ==
    /\ pc \in {"decode", "decoded"}
        => /\ Len(wire.bytes) = MESSAGE_SIZE
           /\ wire.bytes[3] = 0 <=> ~wire.message.receiver_uid.some
           /\ wire.bytes[4] = 0 <=> ~wire.message.next_hop.some
    /\ pc = "decoded"
        => /\ wire.decoded.ok
           /\ wire.decoded.value.intent = wire.message.intent
           /\ wire.decoded.value.sender_uid = wire.message.sender_uid
           /\ wire.decoded.value.receiver_uid = wire.message.receiver_uid
           /\ wire.decoded.value.next_hop = wire.message.next_hop
           /\ wire.decoded.value.length = wire.message.length
           /\ wire.decoded.value.ttl = wire.message.ttl
           /\ wire.decoded.value.content = wire.message.content

C24_RelayedTextDecoded ==
    /\ pc = "decoded"
    /\ wire.decoded.ok
    /\ ~wire.message.receiver_uid.some
    /\ wire.message.next_hop.some
    /\ wire.message.length = 4
    /\ wire.message.ttl = 255
    /\ wire.bytes[7] = 1


\* C32: in every state of the routing table each destination entry holds at
\* most one route per next hop and at most MAX_ROUTES_PER_DEST routes
C32_OneRoutePerNextHop ==
    \A i \in 1..Len(routes) :
        /\ Len(routes[i].routes) <= MAX_ROUTES_PER_DEST
        /\ \A k, l \in 1..Len(routes[i].routes) :
              routes[i].routes[k].next_hop = routes[i].routes[l].next_hop => k = l

\* C33: in every state of the routing table the primary index of each
\* destination entry refers to a route the entry holds
C33_PrimaryIndexInRange ==
    \A i \in 1..Len(routes) :
        /\ routes[i].primary_idx >= 0
        /\ routes[i].primary_idx < Len(routes[i].routes)

\* C34: right after cleanup() no destination entry without routes is left in
\* the routing table, however many entries lost all their routes in the pass
C34_NoEmptyEntryAfterCleanup ==
    rt_log.op = "cleanup" => \A i \in 1..Len(routes) : Len(routes[i].routes) > 0


C32_KnownHopAnnouncedToFullEntry ==
    /\ rt_log.op = "update"
    /\ EntryIdx(rt_log.before, rt_log.dest) # 0
    /\ EntryIdx(routes, rt_log.dest) # 0
    /\ LET old == rt_log.before[EntryIdx(rt_log.before, rt_log.dest)]
           new == routes[EntryIdx(routes, rt_log.dest)]
       IN  /\ Len(old.routes) = MAX_ROUTES_PER_DEST
           /\ \E k \in 1..Len(old.routes) : old.routes[k].next_hop = rt_log.route.next_hop
           /\ Len(new.routes) = MAX_ROUTES_PER_DEST


\* C35: between two handlers of the loop, where no radio call is in progress,
\* the device state is Idle; in particular it is Idle when an iteration ends,
\* also after a transmit that failed
C35_IdleOutsideRadioCalls ==
    pc \in {"rx", "inqueue", "outqueue", "check", "refresh"} => state = "Idle"


\* C36: a frame addressed to another node is not processed locally: the
\* receive step queues no Ack of this node for it and marks no pending-ack
\* entry acknowledged because of it
C36_ForeignFrameNotProcessedLocally ==
    [][(/\ pc = "rx"
        /\ rx_msg' # NoMsg
        /\ rx_msg'.destination_id # None
        /\ rx_msg'.destination_id # uid)
       => /\ \A k \in (Len(outqueue) + 1)..Len(outqueue') :
                ~(/\ outqueue'[k].payload.tag = "Ack"
                  /\ outqueue'[k].source_id = uid
                  /\ outqueue'[k].destination_id = rx_msg'.source_id)
          /\ \A i \in 1..Len(pending_acks) :
                /\ i <= Len(pending_acks')
                /\ pending_acks'[i].is_acknowledged = pending_acks[i].is_acknowledged]_vars

\* C37: a frame delivered locally (addressed to this node, or broadcast) is
\* processed once: when the first frame of a run has been received and InQueue
\* has been processed, OutQueue holds at most one Ack of this node for it
C37_OneAckPerDeliveredFrame ==
    (/\ pc = "outqueue"
     /\ rx_msg # NoMsg
     /\ rx_left = MaxRxFrames - 1
     /\ rx_msg.destination_id \in {None, uid})
        => Cardinality({k \in 1..Len(outqueue) :
                /\ outqueue[k].payload.tag = "Ack"
                /\ outqueue[k].source_id = uid
                /\ outqueue[k].destination_id = rx_msg.source_id
                /\ \/ /\ outqueue[k].payload.kind = "Success"
                      /\ outqueue[k].payload.a = rx_msg.message_id
                   \/ outqueue[k].payload.kind = "AckDiscovered"}) <= 1


\* C40: for a received Discovery, whatever original_ttl and ttl it carries,
\* the hops of the AckDiscovered queued in answer is original_ttl - ttl and
\* lies in 0..original_ttl
C40_HopsIsTtlDifference ==
    [][(/\ pc = "rx"
        /\ rx_msg' # NoMsg
        /\ rx_msg'.payload.tag = "Discovery")
       => \A k \in (Len(outqueue) + 1)..Len(outqueue') :
             (outqueue'[k].payload.tag = "Ack" /\ outqueue'[k].payload.kind = "AckDiscovered")
                 => /\ outqueue'[k].payload.a = rx_msg'.payload.a - rx_msg'.ttl
                    /\ outqueue'[k].payload.a >= 0
                    /\ outqueue'[k].payload.a <= rx_msg'.payload.a]_vars


\* C31: is_better_route is a strict order on the routes of an entry: no route
\* is better than itself, two routes are never each better than the other,
\* and when a is better than b and b is better than c, a is better than c
\* (stated for the entries whose qualities are at most 235, where none of the
\* u8 additions of the comparison can overflow)
C31_PreferenceIsStrictOrder ==
    (pc = "ordered" /\ \A a \in 1..3 : routes[1].routes[a].quality + 20 <= 255)
        => LET rs == routes[1].routes
           IN  /\ \A a \in 1..3 : ~is_better_route(rs[a], rs[a])
               /\ \A a, b \in 1..3 :
                     ~(is_better_route(rs[a], rs[b]) /\ is_better_route(rs[b], rs[a]))
               /\ \A a, b, c \in 1..3 :
                     (is_better_route(rs[a], rs[b]) /\ is_better_route(rs[b], rs[c]))
                         => is_better_route(rs[a], rs[c])

\* C39: of two routes with the same is_active flag whose qualities differ by
\* more than 20, the one with the higher quality is the better and the other
\* is not, also for qualities above 235
C39_QualityMarginDecides ==
    pc = "ordered"
        => \A a, b \in 1..3 :
              (/\ routes[1].routes[a].is_active = routes[1].routes[b].is_active
               /\ routes[1].routes[a].quality > routes[1].routes[b].quality + 20)
                  => /\ is_better_route(routes[1].routes[a], routes[1].routes[b])
                     /\ ~is_better_route(routes[1].routes[b], routes[1].routes[a])


\* C38: in a network of engines a broadcast originated with ttl t is
\* transmitted by its originator and then relayed at most t - 1 times along
\* the chain of nodes that pass it on
C38_BroadcastRelayedAtMostTtlTimes ==
    pc = "net" => \A i \in DOMAIN net.sent : net.sent[i] - 1 <= NetTtl - 1

============================================================================
